---- MODULE Spec2Model ----
(***************************************************************************)
(* Model of the manifest-driven configuration generator of mcp-z/cli:      *)
(*   src/src/commands/manifest/generate.ts                                 *)
(*   src/src/commands/manifest/metadata-reader.ts                          *)
(*                                                                         *)
(* JavaScript strings are TLA+ strings (concatenation is \o).  An optional *)
(* value (a field that may be undefined) is the empty tuple None when it   *)
(* is absent and the one-element tuple Some(v) when it is present.  A      *)
(* JavaScript object used as a map (Record<string,string>) is a function   *)
(* from its keys to its values.                                            *)
(***************************************************************************)
EXTENDS Naturals, Sequences, FiniteSets, TLC

VARIABLES
    envVars,        \* generateConditionalCombinations / generateMatrixCombinations: the argument
    genMode,        \* which generator produced `combinations` ("none" before any call)
    combinations,   \* the Combination[] the generator returned
    product,        \* generateCartesianProduct: None before the call, then Some(the returned string[][])
    depVar,         \* shouldPromptEnvVar: the envVar argument
    selected,       \* shouldPromptEnvVar: the selectedValues argument
    verdict,        \* shouldPromptEnvVar: None before the call, then Some(the returned boolean)
    metadata,       \* buildServerConfig: params.metadata (the ServerMetadata read from server.json)
    params,         \* buildServerConfig: the other fields of params, and the injected envPromptFn
    result,         \* buildServerConfig: None before the call, then Some(what the call produced)
    fileSystem,     \* generateConfigFile: the files (path to content), the directories, whether writes succeed
    tty,            \* process.stdin.isTTY
    outcome,        \* generateConfigFile: None before the call, then Some(what the call returned and did)
    choiceInput,    \* createConfigChoices / filterConfigChoices: the arguments
    configChoices,        \* None before createConfigChoices is called, then Some(the returned ConfigChoice[])
    filtered,       \* None before filterConfigChoices is called, then Some(the returned ConfigChoice[])
    run,            \* generateCommand in file-output mode: the pairs to generate, the position of the loop, generatedCount
    configFile,     \* validateCommand: what is at filePath (None: no file; json None: text that is not JSON)
    installedServers, \* the servers readServerMetadata finds, with their metadata
    report,         \* None before validateCommand is called, then Some(what the call produced)
    session,        \* promptForEnvVars: the arguments, process.env, the position of the loop, env, the prompts invoked
    calls,          \* the loops of generateCommand as awaited calls: which calls are in flight, which prompts are outstanding
    loader          \* the module state of json-schema.ts and the getSchema calls in flight

vars == <<envVars, genMode, combinations, product, depVar, selected, verdict, metadata, params, result, fileSystem, tty, outcome, choiceInput, configChoices, filtered, run, configFile, installedServers, report, session, calls, loader>>

-----------------------------------------------------------------------------
(* Bounds and input pools                                                  *)

MaxVars == 3

\* getSchema calls issued by one process
MaxCallers == 3

\* Names of declared variables: the i-th declared variable is NamePool[i].
NamePool == <<"A", "B", "C", "D", "E">>

\* String.prototype.toLowerCase on the names of NamePool.
ToLower(s) ==
    CASE s = "A" -> "a"
      [] s = "B" -> "b"
      [] s = "C" -> "c"
      [] s = "D" -> "d"
      [] s = "E" -> "e"
      [] s = "H" -> "h"
      [] s = "O" -> "o"
      [] s = "P" -> "p"
      [] s = "R" -> "r"
      [] s = "S" -> "s"
      [] s = "T" -> "t"
      [] OTHER -> s

None == <<>>
Some(v) == <<v>>

\* Declared choice lists: non-empty (generate.ts:306 keeps only variables with
\* choices.length > 0) and free of repetitions.
ChoicePool == { <<"x">>, <<"x", "y">>, <<"y", "">> }

\* Declared dependsOn fields: absent, the empty object, one entry, two entries.
DepPool ==
    { None,
      Some(<<>>),
      Some([n \in {"A"} |-> {"y"}]),
      Some([n \in {"A"} |-> {"x", "y"}]),
      Some([n \in {"A"} |-> {""}]),
      Some([n \in {"B"} |-> {"x"}]),
      Some([n \in {"A", "B"} |-> IF n = "A" THEN {"y"} ELSE {"x"}]) }

\* selectedValues arguments of shouldPromptEnvVar: any assignment of a value
\* (the empty string included) to any subset of {"A", "B"}.
SelectedPool ==
    UNION { [S -> {"", "x", "y"}] : S \in SUBSET {"A", "B"} }

\* A variable list handed to the generators: the i-th variable is named
\* NamePool[i] and takes its choices and its dependsOn from cd[i].
EnvVarInput(n, cd) ==
    [i \in 1..n |-> [name |-> NamePool[i], choices |-> cd[i][1], dependsOn |-> cd[i][2]]]

-----------------------------------------------------------------------------
(* Helpers standing for JavaScript built-ins                               *)

\* Array.prototype.join
RECURSIVE Join(_, _)
Join(parts, sep) ==
    IF Len(parts) = 0 THEN ""
    ELSE IF Len(parts) = 1 THEN parts[1]
    ELSE parts[1] \o sep \o Join(Tail(parts), sep)

\* Array.prototype.map over a sequence
Map(s, F(_)) == [i \in 1..Len(s) |-> F(s[i])]

\* The elements of an array as a set (Array.prototype.includes)
Range(s) == { s[i] : i \in 1..Len(s) }

\* `a[i] || ''` : the element, or '' when it is undefined
OrEmpty(s, i) == IF i \in DOMAIN s THEN s[i] ELSE ""

\* `${a[i]}` : the element, or the text "undefined"
Interp(s, i) == IF i \in DOMAIN s THEN s[i] ELSE "undefined"

\* Object spread {...a, ...b}: b wins on a shared key
Spread(a, b) ==
    [k \in (DOMAIN a) \cup (DOMAIN b) |-> IF k \in DOMAIN b THEN b[k] ELSE a[k]]

\* The k-th smallest element of a set of numbers
Nth(S, k) == CHOOSE i \in S : Cardinality({ j \in S : j <= i }) = k

\* Array.prototype.flat over a sequence of sequences
RECURSIVE Flatten(_)
Flatten(ss) == IF Len(ss) = 0 THEN <<>> ELSE Head(ss) \o Flatten(Tail(ss))

-----------------------------------------------------------------------------
(* generate.ts                                                             *)

\* Fault injection for C2: one satisfied entry suffices (OR in place of AND).
shouldPromptEnvVarAnyEntry(envVar, selectedValues) ==
    IF envVar.dependsOn = None THEN TRUE
    ELSE LET dependsOn == envVar.dependsOn[1] IN
         \E depName \in DOMAIN dependsOn :
            ~ ( (depName \notin DOMAIN selectedValues \/ selectedValues[depName] = "")
                \/ selectedValues[depName] \notin dependsOn[depName] )

\* generate.ts:213-225
shouldPromptEnvVar(envVar, selectedValues) ==
    IF envVar.dependsOn = None THEN TRUE
    ELSE LET dependsOn == envVar.dependsOn[1] IN
         \A depName \in DOMAIN dependsOn :
            \* !selectedValue is true of undefined and of the empty string
            ~ ( (depName \notin DOMAIN selectedValues \/ selectedValues[depName] = "")
                \/ selectedValues[depName] \notin dependsOn[depName] )

\* Fault injection for C3: the loops of generate.ts:91-95 nested the other way
\* round, so that the first dimension varies fastest.
RECURSIVE generateCartesianProductFirstFastest(_)
generateCartesianProductFirstFastest(dimensions) ==
    IF Len(dimensions) = 0 THEN << <<>> >>
    ELSE LET first == dimensions[1] IN
         IF Len(first.choices) = 0 THEN << <<>> >>
         ELSE IF Len(dimensions) = 1 THEN [i \in 1..Len(first.choices) |-> <<first.choices[i]>>]
         ELSE LET restProduct == generateCartesianProductFirstFastest(Tail(dimensions))
                  m == Len(first.choices)
              IN  [k \in 1..(m * Len(restProduct)) |->
                      <<first.choices[((k - 1) % m) + 1]>> \o restProduct[((k - 1) \div m) + 1]]

\* generate.ts:77-98
RECURSIVE generateCartesianProduct(_)
generateCartesianProduct(dimensions) ==
    IF Len(dimensions) = 0 THEN << <<>> >>
    ELSE LET first == dimensions[1] IN
         IF Len(first.choices) = 0 THEN << <<>> >>
         ELSE IF Len(dimensions) = 1 THEN [i \in 1..Len(first.choices) |-> <<first.choices[i]>>]
         ELSE LET restProduct == generateCartesianProduct(Tail(dimensions))
                  n == Len(restProduct)
              IN  [k \in 1..(Len(first.choices) * n) |->
                      <<first.choices[((k - 1) \div n) + 1]>> \o restProduct[((k - 1) % n) + 1]]

\* A Combination as the generators build it (generate.ts:114-121, 138-145,
\* 168-175, 190-197): argNames, defaults and argDefaults are empty.
Combination(name, envKeys, dimensionValues) ==
    [ name            |-> name,
      envKeys         |-> envKeys,
      argNames        |-> <<>>,
      defaults        |-> <<>>,
      argDefaults     |-> <<>>,
      dimensionValues |-> dimensionValues ]

\* The object built by `dims.forEach((dim, i) => { o[dim.name] = values[i] || '' })`
\* (generate.ts:110-112, 157-159, 182-184): a later dimension of the same name
\* overwrites an earlier one.
AssignByIndex(dims, values) ==
    [ k \in { dims[i].name : i \in 1..Len(dims) } |->
        LET last == CHOOSE i \in 1..Len(dims) :
                        dims[i].name = k /\ \A j \in 1..Len(dims) : dims[j].name = k => j <= i
        IN  OrEmpty(values, last) ]

\* Fault injection for C6: matrix mode falls back to the conditional mode's name.
MatrixNameDefault(nameParts) ==
    IF Len(nameParts) > 0 THEN Join(nameParts, "_") ELSE "default"

\* generate.ts:115
MatrixName(nameParts) ==
    IF Len(nameParts) > 0 THEN Join(nameParts, "_") ELSE "minimal"

\* generate.ts:104-123
generateMatrixCombinations(vs) ==
    LET dimensions == Map(vs, LAMBDA e : [name |-> e.name, choices |-> e.choices])
        product_   == generateCartesianProduct(dimensions)
        combo(values) ==
            LET dimensionValues == AssignByIndex(dimensions, values)
                nameParts == [i \in 1..Len(dimensions) |->
                                 ToLower(dimensions[i].name) \o "-" \o Interp(values, i)]
            IN  Combination(MatrixName(nameParts),
                            Map(dimensions, LAMBDA d : d.name),
                            dimensionValues)
    IN  Map(product_, combo)

\* Fault injection for C5: every dimension contributes a name fragment.
DiscriminatingAll(dims) ==
    SelectSeq([i \in 1..Len(dims) |-> i], LAMBDA i : Len(dims[i].choices) >= 1)

\* The indices of the dimensions that declare more than one choice
\* (`dims.filter((dim) => dim.choices.length > 1)`, generate.ts:167, 188)
Discriminating(dims) ==
    SelectSeq([i \in 1..Len(dims) |-> i], LAMBDA i : Len(dims[i].choices) > 1)

\* generate.ts:169, 191
ConditionalName(nameParts) ==
    IF Len(nameParts) > 0 THEN Join(nameParts, "_") ELSE "default"

\* Fault injection for C4: without a primary dimension the conditional
\* dimensions are promoted to primary ones.
NoPrimaryResultPromoted(vs) ==
    generateMatrixCombinations(vs)

\* generate.ts:135-147
NoPrimaryResult(vs) ==
    << Combination("minimal", <<>>, <<>>) >>

\* Fault injection for C1: applicability is not evaluated, every conditional
\* dimension is taken.
ApplicableConditionalsAll(conditionalDims, baseDimensionValues) ==
    conditionalDims

\* Fault injection for C29: a second pass evaluates the remaining conditional
\* dimensions against the primary values extended with the first choice of
\* every conditional dimension of the first pass.
ApplicableConditionalsNested(conditionalDims, baseDimensionValues) ==
    LET first == SelectSeq(conditionalDims, LAMBDA cond : shouldPromptEnvVar(cond, baseDimensionValues))
        extended == Spread(baseDimensionValues,
                           AssignByIndex(first, [i \in 1..Len(first) |-> first[i].choices[1]]))
    IN  SelectSeq(conditionalDims, LAMBDA cond : shouldPromptEnvVar(cond, extended))

\* generate.ts:162
ApplicableConditionals(conditionalDims, baseDimensionValues) ==
    SelectSeq(conditionalDims, LAMBDA cond : shouldPromptEnvVar(cond, baseDimensionValues))

\* Fault injection for C7: envKeys lists the primary dimensions only.
ConditionalEnvKeysPrimaryOnly(primaryDims, applicableConditionals) ==
    Map(primaryDims, LAMBDA d : d.name)

\* generate.ts:192
ConditionalEnvKeys(primaryDims, applicableConditionals) ==
    Map(primaryDims \o applicableConditionals, LAMBDA d : d.name)

\* generate.ts:130-203
generateConditionalCombinations(vs) ==
    LET primaryDims     == SelectSeq(vs, LAMBDA e : e.dependsOn = None)
        conditionalDims == SelectSeq(vs, LAMBDA e : e.dependsOn # None)
    IN
    IF Len(primaryDims) = 0
    THEN NoPrimaryResult(vs)
    ELSE
    LET primaryProduct == generateCartesianProduct(primaryDims)
        forPrimary(primaryValues) ==
            LET baseDimensionValues == AssignByIndex(primaryDims, primaryValues)
                applicableConditionals == ApplicableConditionals(conditionalDims, baseDimensionValues)
            IN
            IF Len(applicableConditionals) = 0
            THEN LET nameParts == Map(Discriminating(primaryDims),
                                      LAMBDA i : ToLower(primaryDims[i].name) \o "-" \o Interp(primaryValues, i))
                 IN  << Combination(ConditionalName(nameParts),
                                    Map(primaryDims, LAMBDA d : d.name),
                                    baseDimensionValues) >>
            ELSE LET conditionalProduct == generateCartesianProduct(applicableConditionals)
                     forConditional(condValues) ==
                         LET fullDimensionValues ==
                                 Spread(baseDimensionValues, AssignByIndex(applicableConditionals, condValues))
                             allDims   == primaryDims \o applicableConditionals
                             nameParts == Map(Discriminating(allDims),
                                              LAMBDA i : ToLower(allDims[i].name) \o "-"
                                                         \o fullDimensionValues[allDims[i].name])
                         IN  Combination(ConditionalName(nameParts),
                                         ConditionalEnvKeys(primaryDims, applicableConditionals),
                                         fullDimensionValues)
                 IN  Map(conditionalProduct, forConditional)
    IN  Flatten(Map(primaryProduct, forPrimary))

(***************************************************************************)
(* buildServerConfig (generate.ts:959-1122)                                *)
(***************************************************************************)
\* Object.keys / Object.entries enumerate the keys of an object in insertion
\* order.  The objects handed to buildServerConfig are built with their keys
\* in the order of KeyOrder.
KeyOrder == <<"A", "B", "C", "D", "E", "--level", "--mode">>

Keys(obj) ==
    LET In(k) == k \in DOMAIN obj IN SelectSeq(KeyOrder, In)

\* Array.prototype.find on a list of declarations: the first one of that name
Find(declared, name) ==
    LET hits == { i \in 1..Len(declared) : declared[i].name = name } IN
    IF hits = {} THEN None
    ELSE Some(declared[CHOOSE i \in hits : \A j \in hits : i <= j])

\* metadata-reader.ts:117-119
getPackageForTransport(md, transport) ==
    LET hits == { i \in 1..Len(md.packages) : md.packages[i].transport.type = transport } IN
    IF hits = {} THEN None
    ELSE Some(md.packages[CHOOSE i \in hits : \A j \in hits : i <= j])

\* generate.ts:977
TransportType(transport) ==
    IF transport = "http" THEN "streamable-http" ELSE "stdio"

\* generate.ts:988
AllPackageArgNames(pkg) == { pkg.packageArguments[i].name : i \in 1..Len(pkg.packageArguments) }

\* generate.ts:985-995
ArgDimensions(pkg, dimensionValues) ==
    [k \in DOMAIN dimensionValues \cap AllPackageArgNames(pkg) |-> dimensionValues[k]]

EnvDimensions(pkg, dimensionValues) ==
    [k \in DOMAIN dimensionValues \ AllPackageArgNames(pkg) |-> dimensionValues[k]]

\* generate.ts:998-1001
EnvVarsMatchingDependsOn(pkg, combination) ==
    LET Relevant(envVar) == envVar.name \in Range(combination.envKeys)
        Matching(envVar) == shouldPromptEnvVar(envVar, combination.dimensionValues)
    IN  SelectSeq(SelectSeq(pkg.environmentVariables, Relevant), Matching)

\* generate.ts:1005-1012
FilteredDefaults(pkg, combination) ==
    LET allEnvVars == pkg.environmentVariables
        Kept(envName) ==
            LET envVarMeta == Find(allEnvVars, envName) IN
            envVarMeta = None \/ shouldPromptEnvVar(envVarMeta[1], combination.dimensionValues)
    IN  [envName \in { k \in DOMAIN combination.defaults : Kept(k) } |-> combination.defaults[envName]]

\* Fault injection for C24: the filter is ignored.
EnvVarsToPromptUnfiltered(pkg, combination, optionalVarsToPrompt, prePopulatedEnvKeys) ==
    LET matching == EnvVarsMatchingDependsOn(pkg, combination)
        NotPopulated(envVar) == envVar.name \notin prePopulatedEnvKeys
    IN  SelectSeq(matching, NotPopulated)

\* generate.ts:1019-1041
EnvVarsToPrompt(pkg, combination, optionalVarsToPrompt, prePopulatedEnvKeys) ==
    LET matching == EnvVarsMatchingDependsOn(pkg, combination)
        NotPopulated(envVar) == envVar.name \notin prePopulatedEnvKeys
        RequiredOnly(envVar) == envVar.name \notin prePopulatedEnvKeys /\ envVar.isRequired
        SelectedOptional(envVar) ==
            /\ ~ envVar.isRequired
            /\ envVar.name \in optionalVarsToPrompt[1]
            /\ envVar.name \notin prePopulatedEnvKeys
            /\ shouldPromptEnvVar(envVar, combination.dimensionValues)
    IN  IF optionalVarsToPrompt = None THEN SelectSeq(matching, NotPopulated)
        ELSE IF optionalVarsToPrompt[1] = {} THEN SelectSeq(matching, RequiredOnly)
        ELSE SelectSeq(matching, RequiredOnly) \o SelectSeq(pkg.environmentVariables, SelectedOptional)

\* The injected envPromptFn (generate.ts:974, 1052).  It is a parameter of
\* buildServerConfig; here it is one of three resolvers, which answer "p" for
\* every variable handed to them, for the required ones only, or for none.
EnvPromptFn(policy, envVarsToPrompt) ==
    LET answered == { i \in 1..Len(envVarsToPrompt) :
                        \/ policy = "all"
                        \/ policy = "required" /\ envVarsToPrompt[i].isRequired }
    IN  [n \in { envVarsToPrompt[i].name : i \in answered } |-> "p"]

\* path.join(path.resolve(packageDir), binPath) for an absolute packageDir and
\* a relative binPath without '.' or '..' segments (generate.ts:1069-1070)
SourcePath(packageDir, binPath) == packageDir \o "/" \o binPath

\* The default port and host of generate.ts:1088, 1105
DefaultPort == 3000
DefaultHost == "localhost"

\* `x ?? d`
OrElse(x, d) == IF x = None THEN d ELSE x[1]

\* generate.ts:1080-1084: each entry pushes its name, then its value
RECURSIVE PushArgs(_, _)
PushArgs(names, values) ==
    IF Len(names) = 0 THEN <<>>
    ELSE <<Head(names), values[Head(names)]>> \o PushArgs(Tail(names), values)

IsHttp(transport) == transport = "http" \/ transport = "streamable-http"

\* Fault injection for C10: the port flag is pushed before the package
\* arguments.
CommandArgsPortFirst(p, pkg) ==
    LET allArgValues == Spread(p.combination.argDefaults, ArgDimensions(pkg, p.combination.dimensionValues))
        base == IF p.useSource THEN <<SourcePath(p.packageDir[1], p.binPath[1])>>
                ELSE <<"-y", p.packageName>>
        port == IF IsHttp(p.transport) THEN <<"--port", ToString(OrElse(p.httpPort, DefaultPort))>> ELSE <<>>
    IN  base \o port \o PushArgs(Keys(allArgValues), allArgValues)

\* generate.ts:1057-1090, past the two throws of source mode
CommandArgs(p, pkg) ==
    LET allArgValues == Spread(p.combination.argDefaults, ArgDimensions(pkg, p.combination.dimensionValues))
        base == IF p.useSource THEN <<SourcePath(p.packageDir[1], p.binPath[1])>>
                ELSE <<"-y", p.packageName>>
        port == IF IsHttp(p.transport) THEN <<"--port", ToString(OrElse(p.httpPort, DefaultPort))>> ELSE <<>>
    IN  base \o PushArgs(Keys(allArgValues), allArgValues) \o port

\* Fault injection for C9: args and env are always emitted.
StdioBlockAlways(command, args, env) ==
    [command |-> command, args |-> args, env |-> env]

\* generate.ts:1097-1101, 1112-1116: args and env are spread in only when
\* they are not empty
StdioBlock(command, args, env) ==
    LET keys == {"command"} \cup (IF Len(args) > 0 THEN {"args"} ELSE {})
                            \cup (IF DOMAIN env # {} THEN {"env"} ELSE {})
    IN  [k \in keys |-> CASE k = "command" -> command
                          [] k = "args" -> args
                          [] k = "env" -> env]

\* generate.ts:1105
Url(p) ==
    "http://" \o OrElse(p.httpHost, DefaultHost) \o ":" \o ToString(OrElse(p.httpPort, DefaultPort)) \o "/mcp"

\* Fault injection for C17: the HTTP configuration is emitted without its url.
ServerConfigNoUrl(p, command, args, env) ==
    IF IsHttp(p.transport)
    THEN [type |-> "http", start |-> StdioBlock(command, args, env)]
    ELSE StdioBlock(command, args, env)

\* generate.ts:1093-1119
ServerConfig(p, command, args, env) ==
    IF IsHttp(p.transport)
    THEN [type |-> "http", url |-> Url(p), start |-> StdioBlock(command, args, env)]
    ELSE StdioBlock(command, args, env)

\* What a call leaves behind: whether it threw and with which message, the
\* returned config, and the intermediate values of the call.
Thrown(message) ==
    [threw |-> TRUE, message |-> message, config |-> <<>>, handed |-> <<>>,
     filteredDefaults |-> <<>>, envDimensions |-> <<>>, promptedEnv |-> <<>>]

\* generate.ts:959-1122
buildServerConfig(p, md) ==
    LET found == getPackageForTransport(md, TransportType(p.transport)) IN
    IF found = None THEN Thrown("No " \o p.transport \o " transport available")
    ELSE
    LET pkg == found[1]
        envDimensions == EnvDimensions(pkg, p.combination.dimensionValues)
        filteredDefaults == FilteredDefaults(pkg, p.combination)
        prePopulatedEnvKeys == DOMAIN filteredDefaults \cup DOMAIN envDimensions
        envVarsToPrompt == EnvVarsToPrompt(pkg, p.combination, p.optionalVarsToPrompt, prePopulatedEnvKeys)
        promptedEnv == EnvPromptFn(p.envPromptFn, envVarsToPrompt)
        env == Spread(Spread(filteredDefaults, envDimensions), promptedEnv)
    IN  IF p.useSource /\ p.packageDir = None
        THEN Thrown("packageDir is required when useSource is true")
        ELSE IF p.useSource /\ p.binPath = None
        THEN Thrown("binPath is required when useSource is true (check package.json bin entry)")
        ELSE LET command == IF p.useSource THEN "node" ELSE "npx"
                 args == CommandArgs(p, pkg)
             IN  [threw |-> FALSE, message |-> "",
                  config |-> ServerConfig(p, command, args, env),
                  handed |-> [i \in 1..Len(envVarsToPrompt) |-> envVarsToPrompt[i].name],
                  filteredDefaults |-> filteredDefaults,
                  envDimensions |-> envDimensions,
                  promptedEnv |-> promptedEnv]

(***************************************************************************)
(* generateConfigObject, generateConfigFile (generate.ts:1125-1202)        *)
(***************************************************************************)
\* generate.ts:1125-1150: the error of buildServerConfig propagates, its
\* config is wrapped under mcpServers[serverName].
generateConfigObject(p, md) ==
    LET built == buildServerConfig(p, md) IN
    IF built.threw THEN [threw |-> TRUE, message |-> built.message, config |-> <<>>]
    ELSE [threw |-> FALSE, message |-> "",
          config |-> [mcpServers |-> [n \in {p.serverName} |-> built.config]]]

\* JSON.stringify(value, null, 2) on the values of an MCPConfiguration:
\* strings (none of which needs an escape), arrays of strings, objects.
Indent(level) == [i \in 1..(2 * level) |-> " "]

Pad(level) == Join(Indent(level), "")

Quote(s) == "\"" \o s \o "\""

\* An array or object from the texts of its members, at nesting depth `level`
Bracketed(open, members, close, level) ==
    IF Len(members) = 0 THEN open \o close
    ELSE open \o "\n"
         \o Join([i \in 1..Len(members) |-> Pad(level + 1) \o members[i]], ",\n")
         \o "\n" \o Pad(level) \o close

StringifyArray(a, level) ==
    Bracketed("[", [i \in 1..Len(a) |-> Quote(a[i])], "]", level)

StringifyStrings(obj, level) ==
    LET keys == Keys(obj) IN
    Bracketed("{", [i \in 1..Len(keys) |-> Quote(keys[i]) \o ": " \o Quote(obj[keys[i]])], "}", level)

\* {command, args?, env?}, members in the order generate.ts:1097-1101 inserts them
StringifyBlock(b, level) ==
    Bracketed("{",
        <<"\"command\": " \o Quote(b.command)>>
        \o (IF "args" \in DOMAIN b THEN <<"\"args\": " \o StringifyArray(b.args, level + 1)>> ELSE <<>>)
        \o (IF "env" \in DOMAIN b THEN <<"\"env\": " \o StringifyStrings(b.env, level + 1)>> ELSE <<>>),
        "}", level)

\* {type, url, start} (generate.ts:1103-1107) or the stdio block
StringifyServer(config, level) ==
    IF "type" \in DOMAIN config
    THEN Bracketed("{",
            << "\"type\": " \o Quote(config.type),
               "\"url\": " \o Quote(config.url),
               "\"start\": " \o StringifyBlock(config.start, level + 1) >>,
            "}", level)
    ELSE StringifyBlock(config, level)

\* JSON.stringify(config, null, 2) for config = {mcpServers: {[serverName]: serverConfig}}
Stringify(config) ==
    LET servers == config.mcpServers
        name == CHOOSE n \in DOMAIN servers : TRUE
    IN  Bracketed("{",
            << "\"mcpServers\": "
               \o Bracketed("{", <<Quote(name) \o ": " \o StringifyServer(servers[name], 2)>>, "}", 1) >>,
            "}", 0)

\* path.join(outputDir, filename) for the directories of the pools
PathJoin(dir, name) == IF dir = "." THEN name ELSE dir \o "/" \o name

\* The directories fs.mkdirSync(dir, {recursive: true}) makes sure of
AncestorDirs(dir) ==
    CASE dir = "." -> {"."}
      [] dir = "examples" -> {".", "examples"}
      [] dir = "out" -> {".", "out"}
      [] dir = "out/sub" -> {".", "out", "out/sub"}

\* Fault injection for C12: the internal transport tag is not shortened.
TransportNameAsGiven(transport) ==
    transport

\* generate.ts:1173
TransportName(transport) ==
    IF transport = "streamable-http" THEN "http" ELSE transport

\* generate.ts:1174
Filename(p) ==
    ".mcp." \o p.combination.name \o "-" \o TransportName(p.transport) \o ".json"

\* What a call of generateConfigFile leaves behind: the returned boolean,
\* whether the overwrite confirmation was asked, whether envPromptFn was
\* called, the console line, the file system.
FileOutcome(returned, asked, called, log, fs) ==
    [returned |-> returned, asked |-> asked, called |-> called, log |-> log, fileSystem |-> fs]

\* Fault injection for C15: the overwrite confirmation is asked whenever the
\* file exists, interactive or not.
ShouldAskAlways(fs, filepath, isTTY) ==
    filepath \in DOMAIN fs.files

\* generate.ts:1178
ShouldAsk(fs, filepath, isTTY) ==
    filepath \in DOMAIN fs.files /\ isTTY

\* generate.ts:1153-1202.  `answer` is the user's reply to the confirmation.
\* A write into a file system that refuses writes throws, as does mkdirSync
\* when it has a directory to create; the catch of line 1198 turns every
\* throw into the return value false.
generateConfigFile(p, md, fs, isTTY, answer) ==
    LET filename == Filename(p)
        filepath == PathJoin(p.outputDir, filename)
        asked == ShouldAsk(fs, filepath, isTTY)
    IN  IF asked /\ ~ answer
        THEN FileOutcome(FALSE, TRUE, FALSE, "skipped " \o filename, fs)
        ELSE IF ~ fs.writable /\ ~ (AncestorDirs(p.outputDir) \subseteq fs.dirs)
        THEN FileOutcome(FALSE, asked, FALSE, "failed " \o filename, fs)
        ELSE LET made == [fs EXCEPT !.dirs = @ \cup AncestorDirs(p.outputDir)]
                 config == generateConfigObject(p, md)
                 called == getPackageForTransport(md, TransportType(p.transport)) # None
             IN  IF config.threw \/ ~ fs.writable
                 THEN FileOutcome(FALSE, asked, called, "failed " \o filename, made)
                 ELSE FileOutcome(TRUE, asked, called, "wrote " \o filename,
                         [made EXCEPT !.files = Spread(@, [f \in {filepath} |-> Stringify(config.config) \o "\n"])])

(***************************************************************************)
(* createConfigChoices, filterConfigChoices (generate.ts:36-71)            *)
(***************************************************************************)
\* The value of a property that TRANSPORT_MAP, an object literal, inherits
\* from Object.prototype: a function, written here as its source text.
InheritedConstructor == "function Object() { [native code] }"

\* TRANSPORT_MAP[t] (generate.ts:36-39, 52): the own properties stdio and
\* http, the properties inherited from Object.prototype, undefined otherwise.
TransportMapLookup(t) ==
    CASE t = "stdio" -> Some("stdio")
      [] t = "http" -> Some("streamable-http")
      [] t = "constructor" -> Some(InheritedConstructor)
      [] OTHER -> None

\* generate.ts:52: TRANSPORT_MAP[t] || t (every value of the map is truthy)
TransportTag(t) == OrElse(TransportMapLookup(t), t)

\* generate.ts:53-57
ConfigChoice(combination, t) ==
    [combination |-> combination, transport |-> TransportTag(t),
     label |-> combination.name \o " (" \o t \o ")"]

\* generate.ts:48-61
createConfigChoices(cs, transports) ==
    LET perCombination(c) == [j \in 1..Len(transports) |-> ConfigChoice(c, transports[j])]
    IN  Flatten([i \in 1..Len(cs) |-> perCombination(cs[i])])

\* Fault injection for C14: a label is matched by prefix.
LabelSelectedByPrefix(selectedLabels, label) ==
    \E i \in 1..Len(selectedLabels) :
        /\ Len(selectedLabels[i]) <= Len(label)
        /\ SubSeq(label, 1, Len(selectedLabels[i])) = selectedLabels[i]

\* selectedLabels.includes(choice.label) (generate.ts:70)
LabelSelected(selectedLabels, label) ==
    \E i \in 1..Len(selectedLabels) : selectedLabels[i] = label

\* generate.ts:69-71
filterConfigChoices(allChoices, selectedLabels) ==
    LET Selected(choice) == LabelSelected(selectedLabels, choice.label)
    IN  SelectSeq(allChoices, Selected)

(***************************************************************************)
(* generateCommand: the combinations and the file-output loops             *)
(* (generate.ts:303-404, 421-477, 547-643, 687-715, 904-931)               *)
(***************************************************************************)
\* String.prototype.toLowerCase, character by character
RECURSIVE LowerText(_)
LowerText(s) ==
    IF Len(s) = 0 THEN "" ELSE ToLower(SubSeq(s, 1, 1)) \o LowerText(SubSeq(s, 2, Len(s)))

\* generate.ts:306
EnvVarsWithChoices(stdioPackage) ==
    LET Dimension(envVar) == Len(envVar.choices) > 0 /\ envVar.isMandatoryForMatrix
    IN  SelectSeq(stdioPackage.environmentVariables, Dimension)

\* generate.ts:350-358: the declared defaults of the other variables
\* (`if (defaultValue)`: absent and empty defaults are left out)
MatrixDefaults(stdioPackage) ==
    LET declared == stdioPackage.environmentVariables
        dimensions == { EnvVarsWithChoices(stdioPackage)[i].name : i \in 1..Len(EnvVarsWithChoices(stdioPackage)) }
        carriers == { i \in 1..Len(declared) :
                        /\ declared[i].name \notin dimensions
                        /\ declared[i].default # None
                        /\ declared[i].default[1] # "" }
    IN  [n \in { declared[i].name : i \in carriers } |->
            declared[CHOOSE i \in carriers : declared[i].name = n /\ \A j \in carriers : declared[j].name = n => j <= i].default[1]]

\* generate.ts:342-366
MatrixCombinations(stdioPackage) ==
    LET withChoices == EnvVarsWithChoices(stdioPackage)
        envVarsForMatrix == [i \in 1..Len(withChoices) |->
                                [name |-> withChoices[i].name, choices |-> withChoices[i].choices,
                                 dependsOn |-> withChoices[i].dependsOn]]
        generated == generateConditionalCombinations(envVarsForMatrix)
    IN  [i \in 1..Len(generated) |-> [generated[i] EXCEPT !.defaults = MatrixDefaults(stdioPackage)]]

\* generate.ts:333-339
MatrixTransports(md) ==
    <<"stdio">> \o (IF getPackageForTransport(md, "streamable-http") # None THEN <<"streamable-http">> ELSE <<>>)

\* generate.ts:381-382: combinations outer, transports inner
MatrixPairs(md) ==
    LET cs == MatrixCombinations(getPackageForTransport(md, "stdio")[1])
        ts == MatrixTransports(md)
    IN  Flatten([i \in 1..Len(cs) |-> [j \in 1..Len(ts) |-> [combination |-> cs[i], transport |-> ts[j]]]])

\* generate.ts:610-619: the name of an interactive combination
InteractiveName(dims, choiceValues) ==
    LET Real(c) == c # "skip"
        Named(i) == choiceValues[i] # "skip" /\ Len(SelectSeq(dims[i].choices, Real)) > 1
        nameParts == [k \in 1..Cardinality({ i \in 1..Len(dims) : Named(i) }) |->
                        choiceValues[CHOOSE i \in 1..Len(dims) :
                            Named(i) /\ Cardinality({ j \in 1..i : Named(j) }) = k]]
    IN  IF Len(nameParts) > 0 THEN LowerText(Join(nameParts, "-")) ELSE "defaults"

\* generate.ts:607-643, configMode 'env': dims are the selected dimensions
\* with the choices the user ticked ('skip' possibly among them)
InteractiveCombinations(dims, defaults, stdioPackage) ==
    LET tuples == generateCartesianProduct(dims)
        allEnvKeys == [i \in 1..Len(stdioPackage.environmentVariables) |-> stdioPackage.environmentVariables[i].name]
        DimensionValues(choiceValues) ==
            LET kept == { i \in 1..Len(dims) : choiceValues[i] # "skip" } IN
            [n \in { dims[i].name : i \in kept } |->
                choiceValues[CHOOSE i \in kept : dims[i].name = n /\ \A j \in kept : dims[j].name = n => j <= i]]
    IN  [t \in 1..Len(tuples) |->
            [name |-> InteractiveName(dims, tuples[t]),
             envKeys |-> allEnvKeys, argNames |-> <<>>,
             defaults |-> defaults, argDefaults |-> <<>>,
             dimensionValues |-> DimensionValues(tuples[t])]]

\* generate.ts:436-443
MinimalCombination ==
    [name |-> "minimal", envKeys |-> <<>>, argNames |-> <<>>, defaults |-> <<>>,
     argDefaults |-> <<>>, dimensionValues |-> <<>>]

-----------------------------------------------------------------------------
(* validateCommand, validateServerConfig (src/unnamed/part_003)            *)
(*                                                                         *)
(* The validator reads what JSON.parse returns, which need not have the    *)
(* shape of an MCPConfiguration: a parsed value carries its kind.          *)

Str(s) == [kind |-> "string", text |-> s]

Arr(items) == [kind |-> "array", items |-> items]

Obj(members) == [kind |-> "object", members |-> members]

\* Property access: undefined on a missing key and on a string
Get(v, k) ==
    IF v.kind = "object" /\ k \in DOMAIN v.members THEN Some(v.members[k]) ELSE None

\* !x: true of undefined and of the empty string
Falsy(x) == x = None \/ (x[1].kind = "string" /\ x[1].text = "")

\* JSON.parse(JSON.stringify(block)) of a command/args/env block
BlockJson(block) ==
    Obj([k \in DOMAIN block |->
            CASE k = "command" -> Str(block.command)
              [] k = "args" -> Arr(Map(block.args, Str))
              [] k = "env" -> Obj([n \in DOMAIN block.env |-> Str(block.env[n])])])

\* JSON.parse(JSON.stringify(serverConfig))
ServerJson(serverConfig) ==
    IF "type" \in DOMAIN serverConfig
    THEN Obj([k \in DOMAIN serverConfig |->
                CASE k = "type" -> Str(serverConfig.type)
                  [] k = "url" -> Str(serverConfig.url)
                  [] k = "start" -> BlockJson(serverConfig.start)])
    ELSE BlockJson(serverConfig)

\* JSON.parse(JSON.stringify(config)) of an MCPConfiguration
DocumentJson(config) ==
    Obj([k \in {"mcpServers"} |->
            Obj([n \in DOMAIN config.mcpServers |-> ServerJson(config.mcpServers[n])])])

\* types.ts:26-28
isHttpServer(config) ==
    LET type == Get(config, "type") IN
    type # None /\ type[1].kind = "string" /\ type[1].text = "http"

\* types.ts:30-32
isStdioServer(config) == ~ isHttpServer(config)

\* The ValidationResult values
Valid == [valid |-> TRUE]

Invalid(severity, message) == [valid |-> FALSE, severity |-> severity, message |-> message]

\* part_003:155: envValue.match(/^\$\{.*\}$/)
IsPlaceholder(s) ==
    Len(s) >= 3 /\ SubSeq(s, 1, 2) = "${" /\ SubSeq(s, Len(s), Len(s)) = "}"

\* String.prototype.startsWith
StartsWith(s, prefix) == Len(s) >= Len(prefix) /\ SubSeq(s, 1, Len(prefix)) = prefix

\* s.split(sep)[0] for a one-character separator
RECURSIVE SplitHead(_, _)
SplitHead(s, sep) ==
    IF Len(s) = 0 \/ SubSeq(s, 1, 1) = sep THEN ""
    ELSE SubSeq(s, 1, 1) \o SplitHead(SubSeq(s, 2, Len(s)), sep)

\* part_003:151-156
MissingEnvVars(pkg, envToCheck) ==
    LET Missing(v) ==
            /\ v.isRequired
            /\ LET envValue == IF envToCheck = None THEN None ELSE Get(envToCheck[1], v.name)
               IN  Falsy(envValue) \/ IsPlaceholder(envValue[1].text)
    IN  SelectSeq(pkg.environmentVariables, Missing)

\* part_003:168-180
UnknownArgs(pkg, argsToCheck) ==
    LET validArgNames == AllPackageArgNames(pkg)
        Unknown(arg) ==
            /\ StartsWith(arg.text, "--")
            /\ SplitHead(arg.text, "=") # ""
            /\ SplitHead(arg.text, "=") \notin validArgNames
    IN  SelectSeq(argsToCheck, Unknown)

\* part_003:77-118: the first structural finding, or none
StructuralCheck(serverConfig) ==
    IF isHttpServer(serverConfig)
    THEN IF Falsy(Get(serverConfig, "url"))
         THEN Some(Invalid("error", "HTTP server missing required \"url\" field"))
         ELSE LET start == Get(serverConfig, "start") IN
              IF Falsy(start) THEN None
              ELSE IF Falsy(Get(start[1], "command"))
              THEN Some(Invalid("error", "HTTP server \"start\" block missing required \"command\" field"))
              ELSE IF Get(start[1], "args") # None /\ Get(start[1], "args")[1].kind # "array"
              THEN Some(Invalid("error", "HTTP server \"start.args\" field must be an array"))
              ELSE None
    ELSE IF Falsy(Get(serverConfig, "command"))
         THEN Some(Invalid("error", "Stdio server missing required \"command\" field"))
         ELSE IF Get(serverConfig, "args") # None /\ Get(serverConfig, "args")[1].kind # "array"
         THEN Some(Invalid("error", "Stdio server \"args\" field must be an array"))
         ELSE None

\* metadata-reader.ts:60-112 as seen by the validator: the metadata of the
\* installed servers, an Error for any other name
readServerMetadata(installed, serverName) ==
    IF serverName \in DOMAIN installed
    THEN [threw |-> FALSE, metadata |-> installed[serverName]]
    ELSE [threw |-> TRUE,
          message |-> "Server '" \o serverName
                      \o "' not found. Run 'mcpz config list --available' to see installed servers."]

\* part_003:76-190
validateServerConfig(serverName, serverConfig, installed) ==
    LET structural == StructuralCheck(serverConfig)
        read == readServerMetadata(installed, serverName)
    IN
    IF structural # None THEN structural[1]
    ELSE IF read.threw
    THEN Invalid("warning", "Cannot verify: server package not found (" \o read.message \o ")")
    ELSE
    LET transport == IF isHttpServer(serverConfig) THEN "streamable-http" ELSE "stdio"
        found == getPackageForTransport(read.metadata, transport)
    IN
    IF found = None
    THEN Invalid("error", "No " \o transport \o " transport configuration found in server.json")
    ELSE
    LET pkg == found[1]
        block == IF isStdioServer(serverConfig) THEN Some(serverConfig) ELSE Get(serverConfig, "start")
        envToCheck == IF block = None THEN None ELSE Get(block[1], "env")
        missingEnvVars == MissingEnvVars(pkg, envToCheck)
        args == IF block = None THEN None ELSE Get(block[1], "args")
        argsToCheck == IF Falsy(args) THEN <<>> ELSE args[1].items
        unknownArgs == UnknownArgs(pkg, argsToCheck)
        NameOf(v) == v.name
        TextOf(arg) == arg.text
    IN
    IF Len(missingEnvVars) > 0
    THEN Invalid("warning", "Missing or placeholder required env vars: "
                            \o Join(Map(missingEnvVars, NameOf), ", "))
    ELSE IF Len(unknownArgs) > 0
    THEN Invalid("warning", "Unknown arguments: " \o Join(Map(unknownArgs, TextOf), ", ")
                            \o ". May be outdated - consider regenerating config.")
    ELSE Valid

\* The order in which Object.entries lists the servers of the pools
ServerOrder == <<"server", "other">>

\* part_003:49-61: the validation of every server, in order
RECURSIVE ValidateServers(_, _, _)
ValidateServers(names, mcpServers, installed) ==
    IF Len(names) = 0 THEN <<>>
    ELSE <<[serverName |-> Head(names),
            validation |-> validateServerConfig(Head(names), mcpServers.members[Head(names)], installed)]>>
         \o ValidateServers(Tail(names), mcpServers, installed)

\* What a call of validateCommand leaves behind: whether it threw and with
\* which message, the validation of each server, the closing line.
Failed(message, validations) ==
    [threw |-> TRUE, message |-> message, validations |-> validations, closing |-> ""]

\* part_003:14-74.  The file is absent (None), or holds text that is not
\* JSON (json is None), or holds the JSON text of a value.
validateCommand(file, installed) ==
    IF file = None THEN Failed("File not found", <<>>)
    ELSE IF file[1].json = None THEN Failed("Invalid JSON", <<>>)
    ELSE
    LET config == file[1].json[1]
        mcpServers == Get(config, "mcpServers")
    IN
    IF Falsy(mcpServers) \/ mcpServers[1].kind = "string"
    THEN Failed("Config must have \"mcpServers\" object", <<>>)
    ELSE
    LET InOrder(n) == mcpServers[1].kind = "object" /\ n \in DOMAIN mcpServers[1].members
        servers == SelectSeq(ServerOrder, InOrder)
        validations == ValidateServers(servers, mcpServers[1], installed)
        hasErrors == \E i \in 1..Len(validations) :
                        ~ validations[i].validation.valid /\ validations[i].validation.severity = "error"
        hasWarnings == \E i \in 1..Len(validations) :
                        ~ validations[i].validation.valid /\ validations[i].validation.severity # "error"
    IN
    IF Len(servers) = 0
    THEN [threw |-> FALSE, message |-> "", validations |-> <<>>, closing |-> "No servers configured"]
    ELSE IF hasErrors THEN Failed("Validation failed with errors", validations)
    ELSE [threw |-> FALSE, message |-> "", validations |-> validations,
          closing |-> IF hasWarnings THEN "Validation passed with warnings" ELSE "All validations passed"]

-----------------------------------------------------------------------------
(* promptForEnvVars (metadata-reader.ts:219-430)                           *)

\* Fault injection for C20: the legacy value field is preferred to default.
DefaultValueLegacyFirst(envVar) ==
    IF envVar.value # None THEN envVar.value ELSE envVar.default

\* metadata-reader.ts:272: envVar.default ?? envVar.value
DefaultValue(envVar) ==
    IF envVar.default # None THEN envVar.default ELSE envVar.value

\* An optional string that is neither undefined nor empty
Truthy(x) == x # None /\ x[1] # ""

\* Fault injection for C21: the environment value is offered in quick mode too.
OffersEnvValueWhenQuick(envValue, options, isTTY) ==
    Truthy(envValue) /\ isTTY

\* metadata-reader.ts:277: envValue && !options.yes && process.stdin.isTTY
OffersEnvValue(envValue, options, isTTY) ==
    Truthy(envValue) /\ ~ options.yes /\ isTTY

\* Fault injection for C22: a value of exactly 6 characters shows its first 4.
redactValueBelowSix(value, isSecret) ==
    IF ~ isSecret THEN value
    ELSE IF Len(value) < 6 THEN "XXX"
    ELSE SubSeq(value, 1, 4) \o "XXX"

\* metadata-reader.ts:219-229
redactValue(value, isSecret) ==
    IF ~ isSecret THEN value
    ELSE IF Len(value) <= 6 THEN "XXX"
    ELSE SubSeq(value, 1, 4) \o "XXX"

\* The first position of the character ch in s from position `from` on, 0
\* when there is none
RECURSIVE IndexOf(_, _, _)
IndexOf(s, ch, from) ==
    IF from > Len(s) THEN 0
    ELSE IF SubSeq(s, from, from) = ch THEN from
    ELSE IndexOf(s, ch, from + 1)

\* Object.keys(variables): templateVars is built with HOST before PORT
\* (generate.ts:1048-1050)
TemplateKeyOrder == <<"HOST", "PORT">>

\* metadata-reader.ts:242-246: template.replace(/\{([^}]+)\}/g, ...), the
\* key being looked up without regard to case
RECURSIVE ReplaceTokens(_, _)
ReplaceTokens(template, variables) ==
    LET open == IndexOf(template, "{", 1)
        close == IF open = 0 THEN 0 ELSE IndexOf(template, "}", open + 1)
    IN  IF open = 0 \/ close = 0 THEN template
        ELSE IF close = open + 1
        THEN SubSeq(template, 1, open)
             \o ReplaceTokens(SubSeq(template, open + 1, Len(template)), variables)
        ELSE LET varName == SubSeq(template, open + 1, close - 1)
                 keys == { k \in DOMAIN variables : LowerText(k) = LowerText(varName) }
                 replacement == IF keys = {} THEN SubSeq(template, open, close)
                                ELSE variables[Head(SelectSeq(TemplateKeyOrder, LAMBDA k : k \in keys))]
             IN  SubSeq(template, 1, open - 1) \o replacement
                 \o ReplaceTokens(SubSeq(template, close + 1, Len(template)), variables)

\* metadata-reader.ts:236-247
substituteTemplateVars(template, variables) ==
    IF ~ Truthy(template) \/ variables = None THEN template
    ELSE Some(ReplaceTokens(template[1], variables[1]))

\* metadata-reader.ts:252-254
getDynamicPlaceholder(envVar, variables) ==
    substituteTemplateVars(envVar.placeholder, variables)

\* input.trim() === ''
RECURSIVE IsBlank(_)
IsBlank(s) ==
    Len(s) = 0 \/ (SubSeq(s, 1, 1) = " " /\ IsBlank(SubSeq(s, 2, Len(s))))

\* One call of a prompt primitive: which one, for which variable, with which
\* displayed choices and suggested default
Prompt(fn, name, message, choices, default) ==
    [fn |-> fn, name |-> name, message |-> message, choices |-> choices, default |-> default]

\* What one iteration of the loop does: the value it assigns to
\* env[envVar.name] (None when it assigns nothing), the prompts it invoked,
\* the warning it logged, and whether the prompts accept the user's reply.
Resolved(value, prompts, accepted) ==
    [value |-> value, prompts |-> prompts, warned |-> FALSE, accepted |-> accepted]

\* metadata-reader.ts:269-426, one iteration: reply.select is the choice the
\* user makes in a select, reply.text what the user types in an input or
\* password, reply.confirm the answer to a confirm.
promptForOne(serverName, envVar, envValue, options, isTTY, reply) ==
    LET defaultValue == DefaultValue(envVar)
        promptFn == IF envVar.isSecret THEN "password" ELSE "input"
        hasChoices == Len(envVar.choices) > 0
        skip == IF envVar.isRequired THEN <<>> ELSE <<"Skip (optional)">>
        label == "[" \o serverName \o "] " \o envVar.name
        requiredOk == ~ (envVar.isRequired /\ IsBlank(reply.text))
        placeholder == getDynamicPlaceholder(envVar, options.templateVars)
        suggested == IF Truthy(placeholder) THEN placeholder ELSE None
    IN
    IF Truthy(defaultValue) THEN Resolved(defaultValue, <<>>, TRUE)
    ELSE IF OffersEnvValue(envValue, options, isTTY)
    THEN LET useEnvChoice == redactValue(envValue[1], envVar.isSecret) \o " (environment)" IN
         IF hasChoices
         THEN LET choices == <<useEnvChoice>> \o envVar.choices \o <<"Enter custom value">> \o skip
                  asked == <<Prompt("select", envVar.name, label, choices, None)>>
                  value == reply.select
                  offered == value \in Range(choices)
              IN  IF value = useEnvChoice THEN Resolved(envValue, asked, offered)
                  ELSE IF value = "Skip (optional)" THEN Resolved(None, asked, offered)
                  ELSE IF value = "Enter custom value"
                  THEN Resolved(Some(reply.text),
                                asked \o <<Prompt(promptFn, envVar.name, label \o " (enter value)", <<>>, None)>>,
                                offered /\ requiredOk)
                  ELSE Resolved(Some(value), asked, offered)
         ELSE LET names == <<"Use " \o useEnvChoice, "Enter new value">> \o skip
                  values == <<"use-env", "enter-new", "skip">>
                  asked == <<Prompt("select", envVar.name, label, names, None)>>
                  picked == { i \in 1..Len(names) : names[i] = reply.select }
                  action == IF picked = {} THEN "" ELSE values[CHOOSE i \in picked : TRUE]
              IN  IF action = "use-env" THEN Resolved(envValue, asked, picked # {})
                  ELSE IF action = "skip" THEN Resolved(None, asked, picked # {})
                  ELSE Resolved(Some(reply.text),
                                asked \o <<Prompt(promptFn, envVar.name, label \o " (enter value)", <<>>, None)>>,
                                picked # {} /\ requiredOk)
    ELSE IF options.yes
    THEN IF hasChoices /\ envVar.choices[1] # ""
         THEN Resolved(Some(envVar.choices[1]), <<>>, TRUE)
         ELSE [value |-> None, prompts |-> <<>>, warned |-> envVar.isRequired, accepted |-> TRUE]
    ELSE IF hasChoices /\ envVar.choices[1] # ""
    THEN IF isTTY
         THEN LET choices == envVar.choices \o skip
                  asked == <<Prompt("select", envVar.name, label, choices, None)>>
                  value == reply.select
              IN  Resolved(IF value # "Skip (optional)" THEN Some(value) ELSE None,
                           asked, value \in Range(choices))
         ELSE Resolved(Some(envVar.choices[1]), <<>>, TRUE)
    ELSE IF envVar.isRequired
    THEN IF isTTY
         THEN Resolved(Some(reply.text),
                       <<Prompt(promptFn, envVar.name, label \o " (required)", <<>>, suggested)>>,
                       ~ IsBlank(reply.text))
         ELSE Resolved(None, <<>>, TRUE)
    ELSE IF ~ envVar.isRequired /\ ~ options.yes /\ isTTY
    THEN LET asked == <<Prompt("confirm", envVar.name,
                               "[" \o serverName \o "] Set optional " \o envVar.name \o "? (optional)", <<>>, None)>>
         IN  IF reply.confirm
             THEN Resolved(IF ~ IsBlank(reply.text) THEN Some(reply.text) ELSE None,
                           asked \o <<Prompt(promptFn, envVar.name, label, <<>>, suggested)>>, TRUE)
             ELSE Resolved(None, asked, TRUE)
    ELSE Resolved(None, <<>>, TRUE)

-----------------------------------------------------------------------------
(* The generators as a state machine: the argument is any list of at most   *)
(* MaxVars variables, each action is one call on it.                        *)

NoCall == [dependsOn |-> None]
NoMetadata == [packages |-> <<>>]
NoParams == <<>>
NoFiles == [files |-> <<>>, dirs |-> {}, writable |-> TRUE]

\* The variables of the other state machines, at rest.
GeneratorsIdle ==
    /\ envVars = <<>>
    /\ genMode = "none"
    /\ combinations = <<>>
    /\ product = None
    /\ depVar = NoCall
    /\ selected = <<>>
    /\ verdict = None

BuildIdle ==
    /\ metadata = NoMetadata
    /\ params = NoParams
    /\ result = None

FilesIdle ==
    /\ fileSystem = NoFiles
    /\ tty = FALSE
    /\ outcome = None

ChoicesIdle ==
    /\ choiceInput = <<>>
    /\ configChoices = None
    /\ filtered = None

ValidatorIdle ==
    /\ configFile = None
    /\ installedServers = <<>>
    /\ report = None

NoSession == [phase |-> "idle"]

PromptIdle == session = NoSession

NoCalls == [phase |-> "idle"]

CallsIdle == calls = NoCalls

NoLoader == [phase |-> "idle"]

SchemaIdle == loader = NoLoader

NoRun == [phase |-> "idle"]

RunIdle == run = NoRun

InitComb ==
    /\ \E n \in 0..MaxVars : \E cd \in [1..n -> ChoicePool \X DepPool] : envVars = EnvVarInput(n, cd)
    /\ genMode = "none"
    /\ combinations = <<>>
    /\ product = None
    /\ depVar = NoCall
    /\ selected = <<>>
    /\ verdict = None
    /\ metadata = NoMetadata
    /\ params = NoParams
    /\ result = None
    /\ FilesIdle
    /\ ChoicesIdle
    /\ RunIdle
    /\ ValidatorIdle
    /\ PromptIdle
    /\ CallsIdle
    /\ SchemaIdle

CallConditional ==
    /\ genMode = "none"
    /\ genMode' = "conditional"
    /\ combinations' = generateConditionalCombinations(envVars)
    /\ UNCHANGED <<envVars, product, depVar, selected, verdict, metadata, params, result,
                 fileSystem, tty, outcome,
                 choiceInput, configChoices, filtered,
                 run,
                 configFile, installedServers, report,
                 session,
                 calls,
                 loader>>

CallMatrix ==
    /\ genMode = "none"
    /\ genMode' = "matrix"
    /\ combinations' = generateMatrixCombinations(envVars)
    /\ UNCHANGED <<envVars, product, depVar, selected, verdict, metadata, params, result,
                 fileSystem, tty, outcome,
                 choiceInput, configChoices, filtered,
                 run,
                 configFile, installedServers, report,
                 session,
                 calls,
                 loader>>

CallCartesianProduct ==
    /\ genMode = "none"
    /\ genMode' = "product"
    /\ product' = Some(generateCartesianProduct(envVars))
    /\ UNCHANGED <<envVars, combinations, depVar, selected, verdict, metadata, params, result,
                 fileSystem, tty, outcome,
                 choiceInput, configChoices, filtered,
                 run,
                 configFile, installedServers, report,
                 session,
                 calls,
                 loader>>

NextComb == CallConditional \/ CallMatrix \/ CallCartesianProduct

SpecComb == InitComb /\ [][NextComb]_vars

-----------------------------------------------------------------------------
(* shouldPromptEnvVar as a state machine: both arguments are drawn from     *)
(* the pools, the action is the call.                                       *)

InitDep ==
    /\ depVar \in { [dependsOn |-> d] : d \in DepPool }
    /\ selected \in SelectedPool
    /\ verdict = None
    /\ envVars = <<>>
    /\ genMode = "none"
    /\ combinations = <<>>
    /\ product = None
    /\ metadata = NoMetadata
    /\ params = NoParams
    /\ result = None
    /\ FilesIdle
    /\ ChoicesIdle
    /\ RunIdle
    /\ ValidatorIdle
    /\ PromptIdle
    /\ CallsIdle
    /\ SchemaIdle

CallShouldPrompt ==
    /\ verdict = None
    /\ verdict' = Some(shouldPromptEnvVar(depVar, selected))
    /\ UNCHANGED <<envVars, genMode, combinations, product, depVar, selected, metadata, params, result,
                 fileSystem, tty, outcome,
                 choiceInput, configChoices, filtered,
                 run,
                 configFile, installedServers, report,
                 session,
                 calls,
                 loader>>

NextDep == CallShouldPrompt

SpecDep == InitDep /\ [][NextDep]_vars

-----------------------------------------------------------------------------
(* buildServerConfig as a state machine: the arguments are drawn from the   *)
(* pools below, the action is one call.                                     *)
(***************************************************************************)
\* The number of environment variables the packages of a manifest declare
\* altogether.
MaxDecls == 3

\* Declared dependsOn fields of the packages' variables.
BuildDepPool == { None, Some([n \in {"A"} |-> {"y"}]) }

\* A declaration is a dependsOn field and an isRequired flag.
BuildVarPool == BuildDepPool \X BOOLEAN

\* The i-th variable a package declares is named NamePool[i].
Declared(n, v) ==
    [i \in 1..n |-> [name |-> NamePool[i], dependsOn |-> v[i][1], isRequired |-> v[i][2]]]

Package(type, declared, argNames) ==
    [transport |-> [type |-> type],
     environmentVariables |-> declared,
     packageArguments |-> [i \in 1..Len(argNames) |-> [name |-> argNames[i]]]]

Transports == {"stdio", "http", "streamable-http"}

PackageName == "@org/server"

\* Combinations handed to buildServerConfig, for the environment part
EnvCombinations ==
    { [name |-> "c", envKeys |-> ek, argNames |-> <<>>, defaults |-> d,
       argDefaults |-> <<>>, dimensionValues |-> dv] :
        ek \in { <<"A">>, <<"A", "B">> },
        d \in { <<>>, [n \in {"B"} |-> "d"] },
        dv \in { <<>>, [n \in {"A"} |-> "x"], [n \in {"A"} |-> "y"],
                 [n \in {"A", "B"} |-> IF n = "A" THEN "y" ELSE "x"] } }

\* Combinations handed to buildServerConfig, for the command part
ShapeCombinations ==
    { [name |-> "c", envKeys |-> ek, argNames |-> Keys(ad), defaults |-> d,
       argDefaults |-> ad, dimensionValues |-> dv] :
        ek \in { <<>>, <<"A">> },
        d \in { <<>>, [n \in {"B"} |-> "d"] },
        ad \in { <<>>, [n \in {"--level"} |-> "l"] },
        dv \in { <<>>, [n \in {"A"} |-> "x"], [n \in {"--mode"} |-> "m"],
                 [n \in {"A", "--mode"} |-> IF n = "A" THEN "x" ELSE "m"] } }

Params(c, t, useSource, packageDir, binPath, httpHost, httpPort, filter, policy) ==
    [combination |-> c, transport |-> t, packageName |-> PackageName,
     packageDir |-> packageDir, binPath |-> binPath,
     httpHost |-> httpHost, httpPort |-> httpPort, useSource |-> useSource,
     optionalVarsToPrompt |-> filter, envPromptFn |-> policy]

\* Any manifest with at most a stdio and an http package declaring at most
\* MaxDecls variables, installed mode, default host and port.
InitEnv ==
    /\ \E ns \in 0..MaxDecls : \E nh \in 0..(MaxDecls - ns) :
       \E hasStdio \in { b \in BOOLEAN : b \/ ns = 0 } :
       \E hasHttp \in { b \in BOOLEAN : b \/ nh = 0 } :
       \E vs \in [1..ns -> BuildVarPool] : \E vh \in [1..nh -> BuildVarPool] :
          metadata = [packages |->
                        (IF hasStdio THEN <<Package("stdio", Declared(ns, vs), <<>>)>> ELSE <<>>)
                        \o (IF hasHttp THEN <<Package("streamable-http", Declared(nh, vh), <<>>)>> ELSE <<>>)]
    /\ \E c \in EnvCombinations : \E t \in Transports :
       \E filter \in { None, Some({}), Some({"B"}) } : \E policy \in { "all", "none" } :
          params = Params(c, t, FALSE, None, None, None, None, filter, policy)

\* One manifest with both packages, any mode, host and port.
InitShape ==
    /\ \E argNames \in { <<>>, <<"--mode">> } :
          metadata = [packages |->
                        << Package("stdio", Declared(1, <<<<None, TRUE>>>>), argNames),
                           Package("streamable-http", Declared(1, <<<<None, TRUE>>>>), argNames) >>]
    /\ \E c \in ShapeCombinations : \E t \in Transports :
       \E useSource \in BOOLEAN :
       \E packageDir \in { None, Some("/pkg") } : \E binPath \in { None, Some("bin/server.js") } :
       \E httpHost \in { None, Some("localhost"), Some("example.org") } :
       \E httpPort \in { None, Some(3000), Some(8080) } :
       \E policy \in { "all", "none" } :
          params = Params(c, t, useSource, packageDir, binPath, httpHost, httpPort, None, policy)

InitBuild ==
    /\ InitEnv \/ InitShape
    /\ result = None
    /\ envVars = <<>>
    /\ genMode = "none"
    /\ combinations = <<>>
    /\ product = None
    /\ depVar = NoCall
    /\ selected = <<>>
    /\ verdict = None
    /\ FilesIdle
    /\ ChoicesIdle
    /\ RunIdle
    /\ ValidatorIdle
    /\ PromptIdle
    /\ CallsIdle
    /\ SchemaIdle

CallBuildServerConfig ==
    /\ result = None
    /\ result' = Some(buildServerConfig(params, metadata))
    /\ UNCHANGED <<envVars, genMode, combinations, product, depVar, selected, verdict, metadata, params,
                 fileSystem, tty, outcome,
                 choiceInput, configChoices, filtered,
                 run,
                 configFile, installedServers, report,
                 session,
                 calls,
                 loader>>

NextBuild == CallBuildServerConfig

SpecBuild == InitBuild /\ [][NextBuild]_vars

-----------------------------------------------------------------------------
(* generateConfigFile as a state machine: one call on any file system of    *)
(* the pool, the user's reply to the confirmation being free.               *)
(***************************************************************************)
ServerName == "server"

OutputDirs == {".", "examples", "out/sub"}

\* A file the calls have no business with
Bystander == "README.md"

\* The target file is absent (its directory too, or not) or holds "old\n".
FileSystems(p) ==
    LET filepath == PathJoin(p.outputDir, Filename(p))
        kept == [f \in {Bystander} |-> "readme\n"]
    IN  { [files |-> kept, dirs |-> {"."}, writable |-> w] : w \in BOOLEAN }
        \cup { [files |-> kept, dirs |-> AncestorDirs(p.outputDir), writable |-> w] : w \in BOOLEAN }
        \cup { [files |-> Spread(kept, [f \in {filepath} |-> "old\n"]),
                dirs |-> AncestorDirs(p.outputDir), writable |-> w] : w \in BOOLEAN }

FileCombinations ==
    { [name |-> n, envKeys |-> <<"A">>, argNames |-> <<>>, defaults |-> <<>>,
       argDefaults |-> <<>>, dimensionValues |-> dv] :
        n \in { "c", "minimal" },
        dv \in { <<>>, [k \in {"A"} |-> "x"] } }

FileManifests ==
    LET stdio == Package("stdio", Declared(1, <<<<None, TRUE>>>>), <<>>)
        http == Package("streamable-http", Declared(1, <<<<None, TRUE>>>>), <<>>)
    IN  { [packages |-> <<stdio, http>>], [packages |-> <<stdio>>], [packages |-> <<http>>] }

\* params of generateConfigFile: those of buildServerConfig, serverName, outputDir
FileParams(p, serverName, outputDir) ==
    [combination |-> p.combination, transport |-> p.transport, packageName |-> p.packageName,
     packageDir |-> p.packageDir, binPath |-> p.binPath,
     httpHost |-> p.httpHost, httpPort |-> p.httpPort, useSource |-> p.useSource,
     optionalVarsToPrompt |-> p.optionalVarsToPrompt, envPromptFn |-> p.envPromptFn,
     serverName |-> serverName, outputDir |-> outputDir]

InitFile ==
    /\ metadata \in FileManifests
    /\ \E c \in FileCombinations : \E t \in Transports : \E outputDir \in OutputDirs :
       \E useSource \in BOOLEAN : \E binPath \in { None, Some("bin/server.js") } :
       \E policy \in { "all", "none" } :
          params = FileParams(Params(c, t, useSource, Some("/pkg"), binPath, None, None, None, policy),
                              ServerName, outputDir)
    /\ fileSystem \in FileSystems(params)
    /\ tty \in BOOLEAN
    /\ result = None
    /\ outcome = None
    /\ GeneratorsIdle
    /\ ChoicesIdle
    /\ RunIdle
    /\ ValidatorIdle
    /\ PromptIdle
    /\ CallsIdle
    /\ SchemaIdle

CallGenerateConfigFile ==
    /\ outcome = None
    /\ \E answer \in BOOLEAN :
          LET o == generateConfigFile(params, metadata, fileSystem, tty, answer) IN
          /\ outcome' = Some([returned |-> o.returned, asked |-> o.asked, called |-> o.called,
                              declined |-> o.asked /\ ~ answer,
                              log |-> o.log, before |-> fileSystem])
          /\ fileSystem' = o.fileSystem
    /\ UNCHANGED <<envVars, genMode, combinations, product, depVar, selected, verdict,
                   metadata, params, result, tty,
                 choiceInput, configChoices, filtered,
                 run,
                 configFile, installedServers, report,
                 session,
                 calls,
                 loader>>

NextFile == CallGenerateConfigFile

SpecFile == InitFile /\ [][NextFile]_vars

-----------------------------------------------------------------------------
(* createConfigChoices and filterConfigChoices as a state machine: the      *)
(* choices are created from any lists of the pools, then filtered.          *)
(***************************************************************************)
MaxCombinations == 2
MaxTransports == 2
MaxLabels == 2

\* The most prompts one generateConfigFile call suspends on
MaxPrompts == 2

\* Transport names: the two user-facing ones, the internal tag, two others.
TransportNames == {"stdio", "http", "streamable-http", "sse", "constructor"}

CombinationNames == {"a", "b"}

\* Labels the user may have selected: labels of choices, and near misses.
LabelPool == {"a (stdio)", "a (http)", "b (http)", "a (sse)", "a", "a (streamable-http)"}

Lists(S, n) == UNION { [1..k -> S] : k \in 0..n }

InitChoices ==
    /\ \E names \in Lists(CombinationNames, MaxCombinations) :
       \E transports \in Lists(TransportNames, MaxTransports) :
       \E selectedLabels \in Lists(LabelPool, MaxLabels) :
          choiceInput = [combinations |-> [i \in 1..Len(names) |-> Combination(names[i], <<>>, <<>>)],
                         transports |-> transports,
                         selectedLabels |-> selectedLabels]
    /\ configChoices = None
    /\ filtered = None
    /\ GeneratorsIdle
    /\ BuildIdle
    /\ FilesIdle
    /\ RunIdle
    /\ ValidatorIdle
    /\ PromptIdle
    /\ CallsIdle
    /\ SchemaIdle

CallCreateConfigChoices ==
    /\ configChoices = None
    /\ configChoices' = Some(createConfigChoices(choiceInput.combinations, choiceInput.transports))
    /\ UNCHANGED <<envVars, genMode, combinations, product, depVar, selected, verdict,
                   metadata, params, result, fileSystem, tty, outcome, choiceInput, filtered,
                 run,
                 configFile, installedServers, report,
                 session,
                 calls,
                 loader>>

CallFilterConfigChoices ==
    /\ configChoices # None
    /\ filtered = None
    /\ filtered' = Some(filterConfigChoices(configChoices[1], choiceInput.selectedLabels))
    /\ UNCHANGED <<envVars, genMode, combinations, product, depVar, selected, verdict,
                   metadata, params, result, fileSystem, tty, outcome, choiceInput, configChoices,
                 run,
                 configFile, installedServers, report,
                 session,
                 calls,
                 loader>>

NextChoices == CallCreateConfigChoices \/ CallFilterConfigChoices

SpecChoices == InitChoices /\ [][NextChoices]_vars

-----------------------------------------------------------------------------
(* The file-output loops of generateCommand as a state machine: the         *)
(* output directory is created, each pair is generated in turn, the count   *)
(* is reported.                                                             *)
(***************************************************************************)
RunVar(name, choices, dependsOn, isRequired, default) ==
    [name |-> name, choices |-> choices, dependsOn |-> dependsOn, isRequired |-> isRequired,
     default |-> default, isMandatoryForMatrix |-> TRUE]

\* Manifests generateCommand accepts: a stdio package that declares a
\* variable with choices (generate.ts:297-313), possibly an http package.
RunManifests ==
    LET A == RunVar("A", <<"x", "y">>, None, TRUE, None)
        B == RunVar("B", <<"x", "y">>, Some([n \in {"A"} |-> {"y"}]), FALSE, None)
        C == RunVar("C", <<>>, None, FALSE, Some("d"))
    IN  { [packages |-> <<Package("stdio", vs, <<>>)>> \o h] :
            vs \in { <<A>>, <<A, B>>, <<A, C>> },
            h \in { <<>>, <<Package("streamable-http", <<A>>, <<>>)>> } }

\* The elements of a sequence at the positions T, in order
Pick(s, T) == [k \in 1..Cardinality(T) |-> s[Nth(T, k)]]

\* The params of the generateConfigFile call of one loop iteration
\* (generate.ts:383-397, 461-473, 909-924)
PairParams(common, pair) ==
    FileParams(Params(pair.combination, pair.transport, common.useSource, common.packageDir,
                      common.binPath, common.httpHost, common.httpPort,
                      common.optionalVarsToPrompt, "all"),
               ServerName, common.outputDir)

\* The pairs of a matrix run, of the minimal config, of an interactive run.
\* In an interactive run the user ticks, for each variable with choices, the
\* choices to include ('skip' being the last one offered; no tick: the
\* variable is no dimension and gets the default dflt), the transports, and
\* the configurations to generate.
RunPairs(md, mode) ==
    IF mode = "matrix" THEN { MatrixPairs(md) }
    ELSE IF mode = "minimal" THEN { <<[combination |-> MinimalCombination, transport |-> "stdio"]>> }
    ELSE LET stdioPackage == getPackageForTransport(md, "stdio")[1]
             withChoices == EnvVarsWithChoices(stdioPackage)
             n == Len(withChoices)
             Offered(i) == withChoices[i].choices \o <<"skip">>
         IN  UNION { UNION {
                LET picked == { i \in 1..n : ticks[i] # {} }
                    dims == [k \in 1..Cardinality(picked) |->
                                [name |-> withChoices[Nth(picked, k)].name,
                                 choices |-> Pick(Offered(Nth(picked, k)), ticks[Nth(picked, k)])]]
                    given == { i \in 1..n : ticks[i] = {} /\ Offered(i)[dflt[i]] # "skip" }
                    defaults == [v \in { withChoices[i].name : i \in given } |->
                                    Offered(CHOOSE i \in given : withChoices[i].name = v)[
                                        dflt[CHOOSE i \in given : withChoices[i].name = v]]]
                    all == createConfigChoices(InteractiveCombinations(dims, defaults, stdioPackage), transports)
                IN  { all } \cup { filterConfigChoices(all, <<all[1].label>>) }
                    \cup { filterConfigChoices(all, <<all[Len(all)].label>>) } :
                transports \in { <<"stdio">>, <<"http">>, <<"stdio", "http">> } } :
                ticks \in { t \in [1..n -> SUBSET (1..3)] :
                              /\ \A i \in 1..n : t[i] \subseteq 1..Len(Offered(i))
                              /\ \E i \in 1..n : t[i] # {} },
                dflt \in { d \in [1..n -> 1..3] : \A i \in 1..n : d[i] <= Len(Offered(i)) } }

\* Settings common to the pairs of a run (generate.ts:332, 377-378, 395,
\* 490-491, 724-733)
RunCommon(mode, useSource, binPath) ==
    [useSource |-> useSource, packageDir |-> Some("/pkg"), binPath |-> binPath,
     httpHost |-> IF mode = "minimal" THEN None ELSE Some("localhost"),
     httpPort |-> IF mode = "minimal" THEN None ELSE Some(3000),
     optionalVarsToPrompt |-> IF mode = "interactive" THEN Some({}) ELSE None,
     outputDir |-> IF mode = "matrix" THEN "examples" ELSE "out"]

InitRun ==
    /\ metadata \in RunManifests
    /\ \E mode \in { "matrix", "minimal", "interactive" } :
       \E pairs \in RunPairs(metadata, mode) :
       \E useSource \in BOOLEAN : \E binPath \in { None, Some("bin/server.js") } :
          run = [mode |-> mode, common |-> RunCommon(mode, useSource, binPath),
                 pairs |-> pairs, phase |-> "start", pos |-> 1,
                 generatedCount |-> 0, results |-> <<>>]
    /\ fileSystem \in FileSystems(PairParams(run.common, run.pairs[1]))
    /\ tty \in BOOLEAN
    /\ outcome = None
    /\ params = NoParams
    /\ result = None
    /\ GeneratorsIdle
    /\ ChoicesIdle
    /\ ValidatorIdle
    /\ PromptIdle
    /\ CallsIdle
    /\ SchemaIdle

RunUnchanged ==
    UNCHANGED <<envVars, genMode, combinations, product, depVar, selected, verdict,
                metadata, params, result, tty, outcome, choiceInput, configChoices, filtered,
                 configFile, installedServers, report,
                 session,
                 calls,
                 loader>>

\* fs.mkdirSync(outputDir, { recursive: true }) ahead of the loop
\* (generate.ts:374, 460, 905); its throw is not caught
StartRun ==
    /\ run.phase = "start"
    /\ IF ~ fileSystem.writable /\ ~ (AncestorDirs(run.common.outputDir) \subseteq fileSystem.dirs)
       THEN /\ run' = [run EXCEPT !.phase = "crashed"]
            /\ UNCHANGED fileSystem
       ELSE /\ run' = [run EXCEPT !.phase = "loop"]
            /\ fileSystem' = [fileSystem EXCEPT !.dirs = @ \cup AncestorDirs(run.common.outputDir)]
    /\ RunUnchanged

\* The generateConfigFile call of the current iteration
CurrentCall(answer) ==
    generateConfigFile(PairParams(run.common, run.pairs[run.pos]), metadata, fileSystem, tty, answer)

\* generate.ts:381-400: generatedCount++ follows every call
GenerateNextMatrix ==
    /\ run.phase = "loop"
    /\ run.mode = "matrix"
    /\ run.pos <= Len(run.pairs)
    /\ \E answer \in BOOLEAN :
          /\ fileSystem' = CurrentCall(answer).fileSystem
          /\ run' = [run EXCEPT !.pos = @ + 1,
                                !.generatedCount = @ + 1,
                                !.results = Append(@, CurrentCall(answer).returned)]
    /\ RunUnchanged

\* generate.ts:461-474: "Generated 1 config file" whatever the call returned
GenerateMinimal ==
    /\ run.phase = "loop"
    /\ run.mode = "minimal"
    /\ run.pos <= Len(run.pairs)
    /\ \E answer \in BOOLEAN :
          /\ fileSystem' = CurrentCall(answer).fileSystem
          /\ run' = [run EXCEPT !.pos = @ + 1,
                                !.generatedCount = 1,
                                !.results = Append(@, CurrentCall(answer).returned)]
    /\ RunUnchanged

\* generate.ts:908-928: generatedCount++ only if the call returned true
GenerateNextInteractive ==
    /\ run.phase = "loop"
    /\ run.mode = "interactive"
    /\ run.pos <= Len(run.pairs)
    /\ \E answer \in BOOLEAN :
          /\ fileSystem' = CurrentCall(answer).fileSystem
          /\ run' = [run EXCEPT !.pos = @ + 1,
                                !.generatedCount = IF CurrentCall(answer).returned THEN @ + 1 ELSE @,
                                !.results = Append(@, CurrentCall(answer).returned)]
    /\ RunUnchanged

\* generate.ts:402, 474, 930
ReportGenerated ==
    /\ run.phase = "loop"
    /\ run.pos > Len(run.pairs)
    /\ run' = [run EXCEPT !.phase = "done"]
    /\ UNCHANGED fileSystem
    /\ RunUnchanged

NextRun == StartRun \/ GenerateNextMatrix \/ GenerateMinimal \/ GenerateNextInteractive \/ ReportGenerated

SpecRun == InitRun /\ [][NextRun]_vars

-----------------------------------------------------------------------------
(* validateCommand as a state machine: the file is either written from     *)
(* what generateConfigObject returns for the params of the pools, or holds *)
(* a document of the pools below; the action is one call.                  *)

\* Manifests of the installed servers
ValidateManifests ==
    LET A == [name |-> "A", dependsOn |-> None, isRequired |-> TRUE]
        B == [name |-> "B", dependsOn |-> Some([n \in {"A"} |-> {"y"}]), isRequired |-> TRUE]
        C == [name |-> "C", dependsOn |-> None, isRequired |-> FALSE]
        stdio == Package("stdio", <<A, B, C>>, <<"--mode">>)
        http == Package("streamable-http", <<A>>, <<>>)
    IN  { [packages |-> <<stdio>>], [packages |-> <<http>>], [packages |-> <<stdio, http>>] }

\* A JSON object from the fields that are present
Fields(command, args, env) ==
    LET present == (IF command = None THEN {} ELSE {"command"})
                   \cup (IF args = None THEN {} ELSE {"args"})
                   \cup (IF env = None THEN {} ELSE {"env"})
    IN  Obj([k \in present |-> CASE k = "command" -> command[1]
                                 [] k = "args" -> args[1]
                                 [] k = "env" -> env[1]])

EnvObject(env) == Obj([n \in DOMAIN env |-> Str(env[n])])

\* Hand-written stdio entries, well-formed or not
StdioEntries ==
    { Fields(command, args, env) :
        command \in { None, Some(Str("")), Some(Str("npx")) },
        args \in { None, Some(Str("not-an-array")),
                   Some(Arr(<<Str("-y"), Str("@org/server"), Str("--mode"), Str("m")>>)),
                   Some(Arr(<<Str("--old=1")>>)) },
        env \in { None, Some(EnvObject([n \in {"A"} |-> "x"])),
                  Some(EnvObject([n \in {"A"} |-> "y"])),
                  Some(EnvObject([n \in {"A"} |-> "${A}"])),
                  Some(EnvObject([n \in {"A", "B"} |-> IF n = "A" THEN "y" ELSE "z"])) } }

\* Hand-written http entries, well-formed or not
HttpEntries ==
    LET starts == { Fields(command, args, env) :
                        command \in { None, Some(Str("npx")) },
                        args \in { None, Some(Str("not-an-array")), Some(Arr(<<Str("--port"), Str("3000")>>)) },
                        env \in { None, Some(EnvObject([n \in {"A"} |-> "x"])) } }
        WithStart(members, start) ==
            [k \in DOMAIN members \cup {"start"} |-> IF k = "start" THEN start ELSE members[k]]
        heads == { [k \in {"type"} |-> Str("http")],
                   [k \in {"type", "url"} |-> IF k = "type" THEN Str("http")
                                              ELSE Str("http://localhost:3000/mcp")] }
    IN  { Obj(h) : h \in heads } \cup { Obj(WithStart(h, s)) : h \in heads, s \in starts }

\* The entries a second server of a document is drawn from
OtherEntries ==
    { Fields(Some(Str("npx")), None, Some(EnvObject([n \in {"A"} |-> "x"]))),
      Fields(None, None, None),
      Obj([k \in {"type"} |-> Str("http")]),
      Obj([k \in {"type", "url"} |-> IF k = "type" THEN Str("http") ELSE Str("http://localhost:3000/mcp")]) }

\* Hand-written documents: without mcpServers, with one that is not an
\* object of servers, with no server, one server or two.
WrittenDocuments ==
    { Obj(<<>>),
      Obj([k \in {"mcpServers"} |-> Str("none")]),
      Obj([k \in {"mcpServers"} |-> Arr(<<>>)]),
      Obj([k \in {"mcpServers"} |-> Obj(<<>>)]) }
    \cup { Obj([k \in {"mcpServers"} |-> Obj([n \in {"server"} |-> e])]) :
            e \in StdioEntries \cup HttpEntries }
    \cup { Obj([k \in {"mcpServers"} |->
                    Obj([n \in {"server", "other"} |-> IF n = "server" THEN e ELSE o])]) :
            e \in StdioEntries \cup HttpEntries, o \in OtherEntries }

\* The servers that are installed: any of the two, with any manifest
InstalledPool ==
    { [n \in names |-> IF n = "server" THEN m ELSE [packages |-> <<Package("stdio", <<>>, <<>>)>>]] :
        names \in SUBSET {"server", "other"}, m \in ValidateManifests }

\* The file is to be generated from params and metadata, the server being
\* installed with that metadata or not at all.
InitGenerated ==
    /\ metadata \in ValidateManifests
    /\ \E c \in EnvCombinations \cup ShapeCombinations : \E t \in Transports :
       \E useSource \in BOOLEAN : \E policy \in { "all", "none" } :
          params = FileParams(Params(c, t, useSource, Some("/pkg"), Some("bin/server.js"),
                                     None, None, None, policy),
                              ServerName, ".")
    /\ configFile = None
    /\ installedServers \in { <<>>, [n \in {ServerName} |-> metadata] }

\* The file was written by hand.
InitWritten ==
    /\ metadata = NoMetadata
    /\ params = NoParams
    /\ configFile \in { None, Some([json |-> None]) }
                      \cup { Some([json |-> Some(d)]) : d \in WrittenDocuments }
    /\ installedServers \in InstalledPool

InitValidate ==
    /\ InitGenerated \/ InitWritten
    /\ report = None
    /\ result = None
    /\ GeneratorsIdle
    /\ FilesIdle
    /\ ChoicesIdle
    /\ RunIdle
    /\ PromptIdle
    /\ CallsIdle
    /\ SchemaIdle

\* generateConfigObject (generate.ts:1125-1150), its result written as JSON
\* (generate.ts:1193) and read back (part_003:22)
WriteGenerated ==
    /\ params # NoParams
    /\ configFile = None
    /\ report = None
    /\ LET generated == generateConfigObject(params, metadata) IN
       /\ ~ generated.threw
       /\ configFile' = Some([json |-> Some(DocumentJson(generated.config))])
    /\ UNCHANGED <<envVars, genMode, combinations, product, depVar, selected, verdict,
                   metadata, params, result, fileSystem, tty, outcome, choiceInput,
                   configChoices, filtered, run, installedServers, report,
                 session,
                 calls,
                 loader>>

CallValidateCommand ==
    /\ report = None
    /\ report' = Some(validateCommand(configFile, installedServers))
    /\ UNCHANGED <<envVars, genMode, combinations, product, depVar, selected, verdict,
                   metadata, params, result, fileSystem, tty, outcome, choiceInput,
                   configChoices, filtered, run, configFile, installedServers,
                 session,
                 calls,
                 loader>>

NextValidate == WriteGenerated \/ CallValidateCommand

SpecValidate == InitValidate /\ [][NextValidate]_vars

-----------------------------------------------------------------------------
(* promptForEnvVars as a state machine: the variables are resolved one     *)
(* after another, the user's replies being free among those the prompts     *)
(* accept; then env is returned.                                            *)

\* The variable under study: any combination of the fields the resolution
\* looks at
PromptVars ==
    { [name |-> "A", default |-> d, value |-> v, placeholder |-> ph, choices |-> ch,
       isRequired |-> req, isSecret |-> sec] :
        d \in { None, Some(""), Some("http://{HOST}/d") },
        v \in { None, Some("legacy") },
        ph \in { None, Some("http://{host}:{PORT}/{X}") },
        ch \in { <<>>, <<"x", "y">>, <<"", "x">> },
        req \in BOOLEAN, sec \in BOOLEAN }

\* The variables that may follow it in the list
FollowingVars ==
    { <<>>,
      <<[name |-> "B", default |-> None, value |-> None, placeholder |-> None, choices |-> <<>>,
         isRequired |-> TRUE, isSecret |-> TRUE]>>,
      <<[name |-> "B", default |-> Some("d"), value |-> None, placeholder |-> None,
         choices |-> <<"x", "y">>, isRequired |-> FALSE, isSecret |-> FALSE]>> }

\* process.env, for the names of the variables
ProcessEnvs ==
    { [n \in {"A", "B"} |-> IF n = "A" THEN a ELSE b] :
        a \in { None, Some(""), Some("secret-value"), Some("short"), Some("secret"), Some("secrets") },
        b \in { None, Some("x") } }

\* What the user may answer: any choice a select may display, any typed text
Replies(envVar, envValue) ==
    LET shown == IF envValue = None THEN {}
                 ELSE { redactValue(envValue[1], envVar.isSecret) \o " (environment)",
                        "Use " \o redactValue(envValue[1], envVar.isSecret) \o " (environment)" }
    IN  [select : shown \cup Range(envVar.choices)
                  \cup { "Enter custom value", "Enter new value", "Skip (optional)" },
         text : { "", " ", "typed" },
         confirm : BOOLEAN]

InitPrompt ==
    /\ \E v \in PromptVars : \E following \in FollowingVars : \E processEnv \in ProcessEnvs :
       \E yes \in BOOLEAN :
       \E templateVars \in { None, Some([k \in {"HOST", "PORT"} |->
                                            IF k = "HOST" THEN "localhost" ELSE "3000"]) } :
          session = [phase |-> "resolving", serverName |-> ServerName,
                     envVars |-> <<v>> \o following, processEnv |-> processEnv,
                     options |-> [yes |-> yes, templateVars |-> templateVars],
                     pos |-> 1, env |-> <<>>, prompts |-> <<>>, warned |-> {}]
    /\ tty \in BOOLEAN
    /\ fileSystem = NoFiles
    /\ outcome = None
    /\ GeneratorsIdle
    /\ BuildIdle
    /\ ChoicesIdle
    /\ RunIdle
    /\ ValidatorIdle
    /\ CallsIdle
    /\ SchemaIdle

PromptUnchanged ==
    UNCHANGED <<envVars, genMode, combinations, product, depVar, selected, verdict,
                metadata, params, result, fileSystem, tty, outcome, choiceInput,
                configChoices, filtered, run, configFile, installedServers, report,
                 calls,
                 loader>>

\* metadata-reader.ts:269-426: one iteration of the loop
PromptForNext ==
    /\ session.phase = "resolving"
    /\ session.pos <= Len(session.envVars)
    /\ LET envVar == session.envVars[session.pos]
           envValue == session.processEnv[envVar.name]
       IN  \E reply \in Replies(envVar, envValue) :
              LET r == promptForOne(session.serverName, envVar, envValue, session.options, tty, reply) IN
              /\ r.accepted
              /\ session' = [session EXCEPT
                               !.pos = @ + 1,
                               !.env = IF r.value = None THEN @
                                       ELSE Spread(@, [n \in {envVar.name} |-> r.value[1]]),
                               !.prompts = @ \o r.prompts,
                               !.warned = IF r.warned THEN @ \cup {envVar.name} ELSE @]
    /\ PromptUnchanged

\* metadata-reader.ts:429: return env
ReturnEnv ==
    /\ session.phase = "resolving"
    /\ session.pos = Len(session.envVars) + 1
    /\ session' = [session EXCEPT !.phase = "returned"]
    /\ PromptUnchanged

NextPrompt == PromptForNext \/ ReturnEnv

SpecPrompt == InitPrompt /\ [][NextPrompt]_vars

-----------------------------------------------------------------------------
(* The loops of generateCommand as awaited calls: a generateConfigFile     *)
(* call starts, suspends on each of its prompts in turn (the overwrite     *)
(* confirmation, then the prompts of promptForEnvVars), and completes with *)
(* its write; the loop awaits each call.  The calls at odd positions of    *)
(* the list suspend on one number of prompts, those at even positions on   *)
(* another.                                                                *)

\* Fault injection for C25: the call is not awaited.
SettledNotAwaited(inFlight) == TRUE

\* generate.ts:383, 909: `await generateConfigFile(...)`: the loop goes on
\* once the promise of the call has settled
Settled(inFlight) == inFlight = {}

InitCalls ==
    /\ metadata \in RunManifests
    /\ tty \in BOOLEAN
    /\ \E mode \in { "matrix", "interactive" } :
       \E pairs \in RunPairs(metadata, mode) :
       \E odd \in 0..MaxPrompts : \E even \in 0..MaxPrompts :
          /\ tty \/ (odd = 0 /\ even = 0)
          /\ calls = [phase |-> "loop", mode |-> mode, pairs |-> pairs, pos |-> 1,
                      toAsk |-> [i \in 1..Len(pairs) |-> IF i % 2 = 1 THEN odd ELSE even],
                      inFlight |-> {}, asking |-> {},
                      started |-> <<>>, completed |-> <<>>]
    /\ fileSystem = NoFiles
    /\ outcome = None
    /\ params = NoParams
    /\ result = None
    /\ GeneratorsIdle
    /\ ChoicesIdle
    /\ RunIdle
    /\ ValidatorIdle
    /\ PromptIdle
    /\ SchemaIdle

CallsUnchanged ==
    UNCHANGED <<envVars, genMode, combinations, product, depVar, selected, verdict,
                metadata, params, result, fileSystem, tty, outcome, choiceInput,
                configChoices, filtered, run, configFile, installedServers, report, session,
                 loader>>

\* generate.ts:381-383, 908-909: the next iteration calls generateConfigFile
BeginCall ==
    /\ calls.phase = "loop"
    /\ calls.pos <= Len(calls.pairs)
    /\ Settled(calls.inFlight)
    /\ calls' = [calls EXCEPT !.inFlight = @ \cup {calls.pos},
                              !.started = Append(@, calls.pos),
                              !.pos = @ + 1]
    /\ CallsUnchanged

\* generate.ts:1179, metadata-reader.ts:294-423: a call in flight awaits a
\* prompt primitive
AskPrompt ==
    /\ calls.phase = "loop"
    /\ \E i \in calls.inFlight \ calls.asking :
          /\ calls.toAsk[i] > 0
          /\ calls' = [calls EXCEPT !.asking = @ \cup {i}]
    /\ CallsUnchanged

\* The user answers an outstanding prompt
AnswerPrompt ==
    /\ calls.phase = "loop"
    /\ \E i \in calls.asking :
          calls' = [calls EXCEPT !.asking = @ \ {i}, !.toAsk[i] = @ - 1]
    /\ CallsUnchanged

\* generate.ts:1193-1201: the file is written (or the failure caught) and the
\* call returns
CompleteCall ==
    /\ calls.phase = "loop"
    /\ \E i \in calls.inFlight \ calls.asking :
          /\ calls.toAsk[i] = 0
          /\ calls' = [calls EXCEPT !.inFlight = @ \ {i}, !.completed = Append(@, i)]
    /\ CallsUnchanged

\* generate.ts:402, 930: the loop is over
EndLoop ==
    /\ calls.phase = "loop"
    /\ calls.pos > Len(calls.pairs)
    /\ Settled(calls.inFlight)
    /\ calls' = [calls EXCEPT !.phase = "done"]
    /\ CallsUnchanged

NextCalls == BeginCall \/ AskPrompt \/ AnswerPrompt \/ CompleteCall \/ EndLoop

SpecCalls == InitCalls /\ [][NextCalls]_vars

-----------------------------------------------------------------------------
(* Vocabulary of the properties: what the specification says, stated       *)
(* without reference to the definitions above.                             *)

\* A dependsOn condition holds under `sel`: it is absent, or every entry names
\* a dimension that has a (non-empty) selected value among the allowed ones.
DependsOnHolds(dep, sel) ==
    \/ dep = None
    \/ \A k \in DOMAIN dep[1] : k \in DOMAIN sel /\ sel[k] # "" /\ sel[k] \in dep[1][k]

\* The same with "has a selected value" read as mere presence of the key.
DependsOnHoldsByPresence(dep, sel) ==
    \/ dep = None
    \/ \A k \in DOMAIN dep[1] : k \in DOMAIN sel /\ sel[k] \in dep[1][k]

Restrict(f, S) == [k \in S \cap DOMAIN f |-> f[k]]

Indices(s) == 1..Len(s)

NoRepeats(s) == \A i, j \in Indices(s) : s[i] = s[j] => i = j

PrimaryIdx(vs) == { i \in Indices(vs) : vs[i].dependsOn = None }
ConditionalIdx(vs) == { i \in Indices(vs) : vs[i].dependsOn # None }
PrimaryNames(vs) == { vs[i].name : i \in PrimaryIdx(vs) }
ConditionalNames(vs) == { vs[i].name : i \in ConditionalIdx(vs) }
VarNamed(vs, n) == vs[CHOOSE i \in Indices(vs) : vs[i].name = n]
ChoiceSet(vs, n) == Range(VarNamed(vs, n).choices)
AllChoices(vs) == UNION { Range(vs[i].choices) : i \in Indices(vs) }

\* The subsequence of the names of vs whose index is in I, in declaration order.
NamesAt(vs, I) ==
    Map(SelectSeq([i \in Indices(vs) |-> i], LAMBDA i : i \in I), LAMBDA i : vs[i].name)

\* Every assignment of one declared choice to each name of N.
Assignments(vs, N) == { f \in [N -> AllChoices(vs)] : \A n \in N : f[n] \in ChoiceSet(vs, n) }

\* The conditional dimensions applicable under the primary assignment p.
ApplicableNames(vs, p) ==
    { n \in ConditionalNames(vs) : DependsOnHolds(VarNamed(vs, n).dependsOn, p) }

\* The dimensionValues the conditional mode has to emit.
ExpectedDimensionValues(vs) ==
    UNION { { g \in Assignments(vs, PrimaryNames(vs) \cup ApplicableNames(vs, p)) :
                  \A n \in PrimaryNames(vs) : g[n] = p[n] }
            : p \in Assignments(vs, PrimaryNames(vs)) }

\* The example of the specification: A:{x,y} primary, B:{x,y} dependsOn {A:[y]}.
ExampleAB ==
    << [name |-> "A", choices |-> <<"x", "y">>, dependsOn |-> None],
       [name |-> "B", choices |-> <<"x", "y">>, dependsOn |-> Some([n \in {"A"} |-> {"y"}])] >>

RECURSIVE Product(_)
Product(ks) == IF Len(ks) = 0 THEN 1 ELSE Head(ks) * Product(Tail(ks))

\* The expected name fragments of a combination: one per name of `names`
\* that declares more than one choice.
Fragments(vs, names, values) ==
    Map(SelectSeq(names, LAMBDA n : Len(VarNamed(vs, n).choices) > 1),
        LAMBDA n : ToLower(n) \o "-" \o values[n])

\* The active dimensions of a combination: primary ones, then the conditional
\* ones applicable under its primary values, each group in declaration order.
ActiveNames(vs, c) ==
    NamesAt(vs, PrimaryIdx(vs))
    \o NamesAt(vs, { i \in ConditionalIdx(vs) :
                       DependsOnHolds(vs[i].dependsOn, Restrict(c.dimensionValues, PrimaryNames(vs))) })

------------------------------------------------------------------------

\* The package the specification has buildServerConfig consult: the
\* streamable-http one for an HTTP request, the stdio one otherwise.
RequestedPackage ==
    getPackageForTransport(metadata, IF IsHttp(params.transport) THEN "streamable-http" ELSE "stdio")

\* The declaration of the variable `name` in a package, if there is one.
DeclaredIn(pkg, name) ==
    IF pkg = None THEN None ELSE Find(pkg[1].environmentVariables, name)

ArgNamesOf(pkg) ==
    IF pkg = None THEN {} ELSE AllPackageArgNames(pkg[1])

Returned == result # None /\ ~ result[1].threw

\* The object that carries command, args and env: the start block of an
\* HTTP configuration, the configuration itself otherwise.
Block(config) == IF "start" \in DOMAIN config THEN config.start ELSE config

EmittedEnv(config) == IF "env" \in DOMAIN Block(config) THEN Block(config).env ELSE <<>>

\* The names of the package arguments of a call, with their values.
PackageArgValues ==
    LET c == params.combination
        dims == DOMAIN c.dimensionValues \cap ArgNamesOf(RequestedPackage)
    IN  [k \in DOMAIN c.argDefaults \cup dims |->
            IF k \in dims THEN c.dimensionValues[k] ELSE c.argDefaults[k]]

\* The decimal text of the ports of the pools.
PortText(port) ==
    CASE port = 3000 -> "3000"
      [] port = 8080 -> "8080"

\* The file a (combination, transport) pair is to be written to.
ShortName(transport) == IF transport = "stdio" THEN "stdio" ELSE "http"

TargetName(p) == ".mcp." \o p.combination.name \o "-" \o ShortName(p.transport) \o ".json"

TargetPath(p) == IF p.outputDir = "." THEN TargetName(p) ELSE p.outputDir \o "/" \o TargetName(p)

\* The files of `after` other than `path` are those of `before`, unchanged.
SameElsewhere(before, after, path) ==
    /\ DOMAIN after.files \ {path} = DOMAIN before.files \ {path}
    /\ \A f \in DOMAIN before.files \ {path} : after.files[f] = before.files[f]

Reverse(s) == [i \in 1..Len(s) |-> s[Len(s) + 1 - i]]

-----
(* Properties                                                              *)

\* C1: with at least one primary dimension, generateConditionalCombinations
\* emits, for each tuple of the primary product, exactly one combination per
\* tuple of the product of the conditional dimensions applicable under it (one
\* combination when none applies); a conditional dimension is a key of
\* dimensionValues iff its dependsOn holds under the combination's primary
\* values; the example A:{x,y}, B:{x,y} dependsOn {A:[y]} yields 3 combinations,
\* none with A=x and B set.
C1_ConditionalProduct ==
    (genMode = "conditional" /\ PrimaryIdx(envVars) # {}) =>
        /\ { combinations[k].dimensionValues : k \in Indices(combinations) }
               = ExpectedDimensionValues(envVars)
        /\ Len(combinations) = Cardinality(ExpectedDimensionValues(envVars))
        /\ \A k \in Indices(combinations) : \A n \in ConditionalNames(envVars) :
               n \in DOMAIN combinations[k].dimensionValues
                   <=> DependsOnHolds(VarNamed(envVars, n).dependsOn,
                                      Restrict(combinations[k].dimensionValues, PrimaryNames(envVars)))
        /\ envVars = ExampleAB =>
               /\ Len(combinations) = 3
               /\ \A k \in Indices(combinations) :
                      combinations[k].dimensionValues["A"] = "x"
                          => "B" \notin DOMAIN combinations[k].dimensionValues

C1_Witness ==
    /\ genMode = "conditional"
    /\ envVars = ExampleAB
    /\ Len(combinations) = 3

\* C2 (as stated): shouldPromptEnvVar returns true iff dependsOn is absent or
\* every entry's dimension is present in selectedValues with a value among the
\* allowed ones.
C2_AsStated ==
    verdict # None => verdict[1] = DependsOnHoldsByPresence(depVar.dependsOn, selected)

\* C2 (amended): shouldPromptEnvVar returns true iff dependsOn is absent or
\* every entry's dimension has a non-empty selected value among the allowed
\* ones; a dimension without a selected value yields false, never an error.
C2_DependsOnSemantics ==
    verdict # None =>
        /\ verdict[1] \in BOOLEAN
        /\ verdict[1] = DependsOnHolds(depVar.dependsOn, selected)

C2_Witness ==
    /\ verdict = Some(FALSE)
    /\ depVar.dependsOn # None
    /\ DOMAIN depVar.dependsOn[1] = {"A", "B"}
    /\ DOMAIN selected = {"A"}
    /\ selected["A"] \in depVar.dependsOn[1]["A"]

\* C3: for dimensions with choice counts (k1, ..., kn) the cartesian product
\* has k1*...*kn tuples of length n, the i-th component a choice of the i-th
\* dimension, every combination of choices exactly once, choices in declaration
\* order with the first dimension varying slowest; zero dimensions give the
\* single empty tuple.
C3_CartesianProduct ==
    genMode = "product" =>
        LET p == product[1]
            n == Len(envVars)
            counts == [i \in 1..n |-> Len(envVars[i].choices)]
            \* how many tuples share one choice of dimension i and of all before it
            stride(i) == Product(SubSeq(counts, i + 1, n))
        IN  /\ Len(p) = Product(counts)
            /\ \A k \in Indices(p) :
                   /\ Len(p[k]) = n
                   /\ \A i \in 1..n :
                          p[k][i] = envVars[i].choices[(((k - 1) \div stride(i)) % counts[i]) + 1]
            /\ NoRepeats(p)
            /\ Range(p) = { t \in [1..n -> AllChoices(envVars)] :
                              \A i \in 1..n : t[i] \in Range(envVars[i].choices) }
            /\ n = 0 => p = << <<>> >>

C3_Witness ==
    /\ genMode = "product"
    /\ Len(envVars) = 3
    /\ Len(envVars[1].choices) = 2
    /\ Len(envVars[2].choices) = 1
    /\ Len(envVars[3].choices) = 2
    /\ Len(product[1]) = 4

\* C4: without a primary dimension generateConditionalCombinations emits the
\* single combination "minimal" with empty envKeys and dimensionValues, the
\* declared conditional dimensions being dropped.
C4_NoPrimaryMinimal ==
    (genMode = "conditional" /\ PrimaryIdx(envVars) = {}) =>
        /\ Len(combinations) = 1
        /\ combinations[1].name = "minimal"
        /\ combinations[1].envKeys = <<>>
        /\ DOMAIN combinations[1].dimensionValues = {}

C4_Witness ==
    /\ genMode = "conditional"
    /\ PrimaryIdx(envVars) = {}
    /\ Len(envVars) >= 2
    /\ \E i \in Indices(envVars) : envVars[i].dependsOn = Some(<<>>)
    /\ Len(combinations) = 1

\* C5: in conditional mode the name of a combination with a discriminating
\* dimension is the '_'-join of "{lowercased name}-{value}" over the active
\* dimensions (primary, then applicable conditional) declaring more than one
\* choice; a single-choice dimension contributes no fragment, yet it is in
\* envKeys and its value in dimensionValues.
C5_NameFragments ==
    (genMode = "conditional" /\ PrimaryIdx(envVars) # {}) =>
        \A k \in Indices(combinations) :
            LET c == combinations[k]
                active == ActiveNames(envVars, c)
                frags == Fragments(envVars, active, c.dimensionValues)
            IN  /\ Len(frags) > 0 => c.name = Join(frags, "_")
                /\ \A j \in Indices(active) :
                       Len(VarNamed(envVars, active[j]).choices) = 1 =>
                           /\ active[j] \in Range(c.envKeys)
                           /\ active[j] \in DOMAIN c.dimensionValues
                           /\ c.dimensionValues[active[j]] = VarNamed(envVars, active[j]).choices[1]

C5_Witness ==
    /\ genMode = "conditional"
    /\ \E k \in Indices(combinations) :
           /\ combinations[k].name = "a-y"
           /\ combinations[k].envKeys = <<"A", "B">>
           /\ combinations[k].dimensionValues["B"] = "x"

C7_EnvKeys ==
    /\ genMode = "conditional" =>
           \A k \in Indices(combinations) :
               LET c == combinations[k] IN
               /\ c.envKeys = IF PrimaryIdx(envVars) = {} THEN <<>> ELSE ActiveNames(envVars, c)
               /\ Range(c.envKeys) = DOMAIN c.dimensionValues
               /\ DOMAIN c.dimensionValues \subseteq Range(c.envKeys) \cup Range(c.argNames)
    /\ genMode = "matrix" =>
           \A k \in Indices(combinations) :
               LET c == combinations[k] IN
               /\ c.envKeys = Map(envVars, LAMBDA e : e.name)
               /\ Range(c.envKeys) = DOMAIN c.dimensionValues
               /\ DOMAIN c.dimensionValues \subseteq Range(c.envKeys) \cup Range(c.argNames)

C7_Witness ==
    /\ genMode = "conditional"
    /\ Len(envVars) = 3
    /\ \E k \in Indices(combinations) : combinations[k].envKeys = <<"A", "C">>
    /\ \E k \in Indices(combinations) : combinations[k].envKeys = <<"A", "B", "C">>

\* C8 (as stated): the env emitted by buildServerConfig never carries the
\* default of a variable whose dependsOn condition, as the package of the
\* requested transport declares it, fails under the combination's
\* dimensionValues; the default of a variable without dependsOn, or whose
\* dependsOn holds, is kept.  Violated for transport 'streamable-http', whose
\* declarations generate.ts:977 takes from the stdio package (see C11).
C8_AsStated ==
    Returned =>
        LET c == params.combination
            env == EmittedEnv(result[1].config)
        IN  \A X \in DOMAIN c.defaults :
                LET decl == DeclaredIn(RequestedPackage, X)
                    fails == decl # None /\ ~ DependsOnHolds(decl[1].dependsOn, c.dimensionValues)
                IN  /\ fails => ~ (X \in DOMAIN env /\ env[X] = c.defaults[X])
                    /\ ~ fails => /\ X \in DOMAIN env
                                  /\ X \notin DOMAIN c.dimensionValues => env[X] = c.defaults[X]

\* C9: in the object that carries command, args and env (the stdio
\* configuration, the start block of an HTTP one) the env key is present iff
\* some env value was resolved (a kept default, an env dimension value, a
\* prompted value) and then holds exactly the resolved keys; the args key is
\* present iff the argument list (launcher tokens, package arguments, port
\* flag) is non-empty; neither is ever empty.
C9_OmitEmpty ==
    Returned =>
        LET r == result[1]
            b == Block(r.config)
            resolved == DOMAIN r.filteredDefaults \cup DOMAIN r.envDimensions \cup DOMAIN r.promptedEnv
            argCount == (IF params.useSource THEN 1 ELSE 2)
                        + 2 * Cardinality(DOMAIN PackageArgValues)
                        + (IF IsHttp(params.transport) THEN 2 ELSE 0)
        IN  /\ "env" \in DOMAIN b <=> resolved # {}
            /\ "env" \in DOMAIN b => DOMAIN b.env = resolved /\ DOMAIN b.env # {}
            /\ "args" \in DOMAIN b <=> argCount > 0
            /\ "args" \in DOMAIN b => Len(b.args) = argCount /\ Len(b.args) > 0

\* A returned HTTP start block without env and with args: a variable was
\* handed to the resolver, which left it unanswered, and nothing else was
\* resolved.
C9_Witness ==
    /\ Returned
    /\ "start" \in DOMAIN result[1].config
    /\ DOMAIN result[1].config.start = {"command", "args"}
    /\ Len(result[1].handed) > 0
    /\ DOMAIN result[1].promptedEnv = {}

\* C10: for transport 'http' or 'streamable-http' buildServerConfig returns
\* exactly {type: "http", url, start} with command, args and env? inside start
\* only; url is "http://{host}:{port}/mcp" with host and port defaulting to
\* localhost and 3000; start.args ends with "--port", "{port}" (the port of
\* url), every package argument standing before them.  For stdio it returns
\* the flat {command, args?, env?}.
C10_Shape ==
    Returned =>
        LET config == result[1].config
            host == IF params.httpHost = None THEN "localhost" ELSE params.httpHost[1]
            port == IF params.httpPort = None THEN "3000" ELSE PortText(params.httpPort[1])
        IN  IF IsHttp(params.transport)
            THEN /\ DOMAIN config = {"type", "url", "start"}
                 /\ config.type = "http"
                 /\ config.url = "http://" \o host \o ":" \o port \o "/mcp"
                 /\ {"command", "args"} \subseteq DOMAIN config.start
                 /\ DOMAIN config.start \subseteq {"command", "args", "env"}
                 /\ LET a == config.start.args
                        n == Len(a)
                    IN  /\ n >= 2
                        /\ a[n - 1] = "--port"
                        /\ a[n] = port
                        /\ \A k \in DOMAIN PackageArgValues :
                              \E i \in 1..(n - 3) : a[i] = k /\ a[i + 1] = PackageArgValues[k]
            ELSE /\ "command" \in DOMAIN config
                 /\ DOMAIN config \subseteq {"command", "args", "env"}

\* A returned HTTP configuration for the internal tag, host and port not
\* supplied, two package arguments before the port flag.
C10_Witness ==
    /\ Returned
    /\ params.transport = "streamable-http"
    /\ params.httpHost = None /\ params.httpPort = None
    /\ result[1].config.url = "http://localhost:3000/mcp"
    /\ Cardinality(DOMAIN PackageArgValues) = 2
    /\ Len(result[1].config.start.args) = 8

\* C11 (as stated): buildServerConfig raises the missing-transport error iff
\* no package declares the transport of the request (streamable-http for
\* 'http' and for 'streamable-http', stdio for 'stdio'), and otherwise takes
\* the argument names, the defaults filter and the variables to resolve from
\* that package.  Violated for 'streamable-http': generate.ts:977 maps only
\* the literal 'http' to the streamable-http package.
C11_AsStated ==
    result # None =>
        LET r == result[1]
            c == params.combination
            missing == r.threw /\ r.message = "No " \o params.transport \o " transport available"
        IN  /\ missing <=> RequestedPackage = None
            /\ ~ r.threw =>
                  LET pkg == RequestedPackage[1]
                      wanted == EnvVarsToPrompt(pkg, c, params.optionalVarsToPrompt,
                                    DOMAIN FilteredDefaults(pkg, c) \cup DOMAIN EnvDimensions(pkg, c.dimensionValues))
                  IN  /\ r.envDimensions = EnvDimensions(pkg, c.dimensionValues)
                      /\ r.filteredDefaults = FilteredDefaults(pkg, c)
                      /\ r.handed = [i \in 1..Len(wanted) |-> wanted[i].name]

\* C12: a call of generateConfigFile that returns true has written exactly
\* one file, "{outputDir}/.mcp.{combination.name}-{short}.json" with short =
\* "http" for 'http' and 'streamable-http' and "stdio" for 'stdio', the output
\* directory and its ancestors existing afterwards; the file holds the
\* 2-space JSON text, newline-terminated, of what generateConfigObject returns
\* for the pair; a call that returns false has written no file.
C12_OneFile ==
    outcome # None =>
        LET o == outcome[1]
            path == TargetPath(params)
        IN  /\ SameElsewhere(o.before, fileSystem, path)
            /\ o.returned =>
                  /\ path \in DOMAIN fileSystem.files
                  /\ ~ generateConfigObject(params, metadata).threw
                  /\ fileSystem.files[path] = Stringify(generateConfigObject(params, metadata).config) \o "\n"
                  /\ params.outputDir \in fileSystem.dirs
                  /\ AncestorDirs(params.outputDir) \subseteq fileSystem.dirs
            /\ ~ o.returned =>
                  /\ path \in DOMAIN fileSystem.files <=> path \in DOMAIN o.before.files
                  /\ path \in DOMAIN fileSystem.files => fileSystem.files[path] = o.before.files[path]

\* The pair (minimal, 'streamable-http') written into out/sub, which did not
\* exist; the text of the file.
C12_Witness ==
    /\ outcome # None /\ outcome[1].returned
    /\ params.transport = "streamable-http"
    /\ outcome[1].before.dirs = {"."}
    /\ "out/sub/.mcp.minimal-http.json" \in DOMAIN fileSystem.files
    /\ fileSystem.files["out/sub/.mcp.minimal-http.json"] =
          "{\n  \"mcpServers\": {\n    \"server\": {\n      \"type\": \"http\",\n"
          \o "      \"url\": \"http://localhost:3000/mcp\",\n      \"start\": {\n"
          \o "        \"command\": \"npx\",\n        \"args\": [\n          \"-y\",\n"
          \o "          \"@org/server\",\n          \"--port\",\n          \"3000\"\n        ]\n"
          \o "      }\n    }\n  }\n}\n"

\* C13 (as stated): createConfigChoices returns |combinations| x |transports|
\* choices, combinations outer and transports inner; each choice carries its
\* combination unchanged, the label "{name} ({transport as given})" and the
\* tag 'stdio' for "stdio", 'streamable-http' for "http", the given string for
\* anything else.  Violated for a transport that names a property inherited
\* from Object.prototype, such as "constructor" (generate.ts:52).
C13_AsStated ==
    configChoices # None =>
        LET cs == choiceInput.combinations
            ts == choiceInput.transports
            out == configChoices[1]
        IN  /\ Len(out) = Len(cs) * Len(ts)
            /\ \A i \in 1..Len(cs) : \A j \in 1..Len(ts) :
                  LET choice == out[(i - 1) * Len(ts) + j] IN
                  /\ choice.combination = cs[i]
                  /\ choice.label = cs[i].name \o " (" \o ts[j] \o ")"
                  /\ choice.transport = CASE ts[j] = "stdio" -> "stdio"
                                          [] ts[j] = "http" -> "streamable-http"
                                          [] OTHER -> ts[j]

\* C14: filterConfigChoices(all, selectedLabels) returns the elements of all
\* whose label equals an element of selectedLabels, unchanged and in the order
\* of all; reversing or repeating selectedLabels gives the same result.
C14_Filter ==
    filtered # None =>
        LET all == configChoices[1]
            labels == choiceInput.selectedLabels
            out == filtered[1]
            hits == { i \in 1..Len(all) : all[i].label \in Range(labels) }
        IN  /\ Len(out) = Cardinality(hits)
            /\ \A k \in 1..Len(out) : out[k] = all[Nth(hits, k)]
            /\ filterConfigChoices(all, Reverse(labels)) = out
            /\ filterConfigChoices(all, labels \o labels) = out

\* Labels selected in reverse order, with a near miss in the pool: the two
\* choices come back in the order of the list of all choices.
C14_Witness ==
    /\ filtered # None
    /\ Len(configChoices[1]) = 4
    /\ choiceInput.selectedLabels = <<"b (http)", "a (stdio)">>
    /\ Len(filtered[1]) = 2
    /\ filtered[1][1].label = "a (stdio)" /\ filtered[1][1].transport = "stdio"
    /\ filtered[1][2].label = "b (http)" /\ filtered[1][2].transport = "streamable-http"

\* C15: generateConfigFile asks for the overwrite confirmation iff the target
\* file exists and the process is interactive; a declined confirmation makes
\* it return false with the resolver not called and the file system (the
\* existing file included) as it was; a non-interactive call never asks and,
\* when it returns true, has replaced the existing content.
C15_Overwrite ==
    outcome # None =>
        LET o == outcome[1]
            path == TargetPath(params)
            existed == path \in DOMAIN o.before.files
        IN  /\ o.asked <=> existed /\ tty
            /\ o.declined =>
                  /\ ~ o.returned
                  /\ ~ o.called
                  /\ fileSystem = o.before
                  /\ fileSystem.files[path] = "old\n"
            /\ (~ tty /\ existed /\ o.returned) =>
                  /\ ~ o.asked
                  /\ fileSystem.files[path] # o.before.files[path]

\* The user declined to overwrite an existing file whose generation would
\* otherwise have called the resolver and succeeded.
C15_Witness ==
    /\ outcome # None
    /\ outcome[1].declined
    /\ tty
    /\ fileSystem.files[TargetPath(params)] = "old\n"
    /\ fileSystem.writable
    /\ ~ generateConfigObject(params, metadata).threw

\* C16 (as stated): in the file-output loops of generateCommand a pair that
\* fails or is declined does not stop the pairs after it, and the reported
\* generated-count is the number of pairs whose file was written.  Violated by
\* the matrix loop (generate.ts:398) and by the minimal config
\* (generate.ts:474), which count a pair whatever generateConfigFile returned.
C16_AsStated ==
    run.phase = "done" =>
        /\ Len(run.results) = Len(run.pairs)
        /\ run.generatedCount = Cardinality({ i \in 1..Len(run.results) : run.results[i] })

\* What the validator was given, once that is a parsed document
Parsed == configFile # None /\ configFile[1].json # None

Document == configFile[1].json[1]

\* The structural errors of a server entry, as the specification lists them
EntryStructuralError(entry) ==
    LET type == Get(entry, "type")
        http == type # None /\ type[1] = Str("http")
        start == Get(entry, "start")
        NotArray(args) == args # None /\ args[1].kind # "array"
    IN  IF http
        THEN \/ Falsy(Get(entry, "url"))
             \/ start # None /\ Falsy(Get(start[1], "command"))
             \/ start # None /\ NotArray(Get(start[1], "args"))
        ELSE \/ Falsy(Get(entry, "command"))
             \/ NotArray(Get(entry, "args"))

\* The document has no mcpServers object
NoServersObject(doc) ==
    Get(doc, "mcpServers") = None \/ Get(doc, "mcpServers")[1].kind = "string"

ServersOf(doc) == Get(doc, "mcpServers")[1]

NamesOf(doc) == IF ServersOf(doc).kind = "object" THEN DOMAIN ServersOf(doc).members ELSE {}

HasStructuralError(doc) ==
    \/ NoServersObject(doc)
    \/ \E n \in NamesOf(doc) : EntryStructuralError(ServersOf(doc).members[n])

StructuralMessages ==
    { "HTTP server missing required \"url\" field",
      "HTTP server \"start\" block missing required \"command\" field",
      "HTTP server \"start.args\" field must be an array",
      "Stdio server missing required \"command\" field",
      "Stdio server \"args\" field must be an array" }

\* The validation the report holds for a server, if it holds one
ValidationOf(name) ==
    LET vs == report[1].validations
        hits == { i \in 1..Len(vs) : vs[i].serverName = name }
    IN  IF hits = {} THEN None ELSE Some(vs[CHOOSE i \in hits : TRUE].validation)

\* C17: whenever generateConfigObject returns a configuration, the validator
\* run on that configuration examines its server and reports none of the
\* structural errors: the generated document has an mcpServers object, a
\* command (in the start block for http), a url for http, and args that are an
\* array when present.
C17_RoundTrip ==
    (report # None /\ params # NoParams /\ Parsed) =>
        /\ ~ HasStructuralError(Document)
        /\ report[1].message # "Config must have \"mcpServers\" object"
        /\ ValidationOf(params.serverName) # None
        /\ LET v == ValidationOf(params.serverName)[1] IN
           v.valid \/ v.message \notin StructuralMessages

\* C17 witness: a generated http configuration with a start block that
\* carries args and env has been validated.
C17_Witness ==
    /\ report # None
    /\ params # NoParams
    /\ Parsed
    /\ IsHttp(params.transport)
    /\ LET start == Get(ServersOf(Document).members[params.serverName], "start") IN
       start # None /\ Get(start[1], "args") # None /\ Get(start[1], "env") # None
    /\ ~ report[1].threw

\* C18 (as stated): validateCommand throws exactly when the document has a
\* structural error, so a document with only metadata-dependent findings
\* passes.  Violated by an entry without structural error whose installed
\* server declares no package for the entry's transport (part_003:139-145,
\* severity 'error').
C18_AsStated ==
    (report # None /\ Parsed) => (report[1].threw <=> HasStructuralError(Document))

\* The required variables the specification says are missing: those whose
\* dependsOn condition holds under the entry's own env values and whose value
\* is absent or a ${...} placeholder.
ClaimedMissing(pkg, env) ==
    LET values == IF env = None THEN <<>>
                  ELSE [n \in DOMAIN env[1].members |-> env[1].members[n].text]
        Missing(v) ==
            /\ v.isRequired
            /\ DependsOnHolds(v.dependsOn, values)
            /\ \/ v.name \notin DOMAIN values
               \/ values[v.name] = ""
               \/ IsPlaceholder(values[v.name])
        NameOf(v) == v.name
    IN  Map(SelectSeq(pkg.environmentVariables, Missing), NameOf)

MissingPrefix == "Missing or placeholder required env vars: "

\* C19 (as stated): the required variables a validation reports as missing
\* are those whose dependsOn condition holds under the entry's env and whose
\* value is absent or a placeholder.  Violated: part_003:151-156 never looks
\* at dependsOn, so a required variable whose condition does not hold is
\* reported too.
C19_AsStated ==
    (report # None /\ Parsed /\ ~ NoServersObject(Document)) =>
        \A n \in NamesOf(Document) :
            LET v == ValidationOf(n)[1]
                entry == ServersOf(Document).members[n]
                block == IF isStdioServer(entry) THEN Some(entry) ELSE Get(entry, "start")
                env == IF block = None THEN None ELSE Get(block[1], "env")
                pkg == getPackageForTransport(installedServers[n],
                           IF isHttpServer(entry) THEN "streamable-http" ELSE "stdio")
            IN  (~ v.valid /\ StartsWith(v.message, MissingPrefix)) =>
                    v.message = MissingPrefix \o Join(ClaimedMissing(pkg[1], env), ", ")

\* The declared default of a variable as the specification reads it: the
\* default field, or the legacy value field when there is no default
DeclaredDefault(envVar) ==
    IF envVar.default # None THEN envVar.default ELSE envVar.value

\* The variables of the session that the loop has been through
ResolvedIdx == { i \in 1..Len(session.envVars) : i < session.pos }

PromptedFor(name) == \E k \in 1..Len(session.prompts) : session.prompts[k].name = name

\* The variable was resolved to exactly that string, without any prompt
ResolvedVerbatim(envVar, text) ==
    /\ envVar.name \in DOMAIN session.env
    /\ session.env[envVar.name] = text
    /\ ~ PromptedFor(envVar.name)

\* C20 (as stated): a variable with a declared default (or legacy value)
\* always resolves to exactly that string, with no prompt.  Violated by a
\* declared default that is the empty string: `if (defaultValue)`
\* (metadata-reader.ts:274) treats it as no default at all.
C20_AsStated ==
    session.phase # "idle" =>
        \A i \in ResolvedIdx :
            LET envVar == session.envVars[i] IN
            DeclaredDefault(envVar) # None => ResolvedVerbatim(envVar, DeclaredDefault(envVar)[1])

\* C20 (amended): a variable whose declared default (or, when default is
\* absent, legacy value) is a non-empty string always resolves to exactly that
\* string, whatever the process environment, the choices, quick mode and the
\* terminal are; no prompt is invoked for it and no template substitution is
\* applied to it.
C20_Default ==
    session.phase # "idle" =>
        \A i \in ResolvedIdx :
            LET envVar == session.envVars[i] IN
            (DeclaredDefault(envVar) # None /\ DeclaredDefault(envVar)[1] # "")
                => ResolvedVerbatim(envVar, DeclaredDefault(envVar)[1])

\* C20 witness: on a terminal, not in quick mode, with a same-named process
\* environment variable, declared choices and template variables at hand, a
\* variable with a default holding a {HOST} token has been resolved to it.
C20_Witness ==
    /\ session.phase = "returned"
    /\ tty
    /\ ~ session.options.yes
    /\ session.options.templateVars # None
    /\ LET envVar == session.envVars[1] IN
       /\ envVar.default = Some("http://{HOST}/d")
       /\ envVar.value = Some("legacy")
       /\ Len(envVar.choices) > 0
       /\ session.processEnv[envVar.name] = Some("secret-value")
       /\ session.env[envVar.name] = "http://{HOST}/d"

\* The run resolves without a user: quick mode, or no interactive terminal
Unattended == session.options.yes \/ ~ tty

\* C21 (as stated): in quick mode or without a terminal no prompt is invoked,
\* and a variable without declared default resolves to its first declared
\* choice if it has choices and is left absent otherwise, a warning being
\* logged in quick mode only.  Violated by a list of choices whose first entry
\* is the empty string: metadata-reader.ts:354 and :361 test choices[0] for
\* truth, and the variable is left absent.
C21_AsStated ==
    (session.phase # "idle" /\ Unattended) =>
        /\ session.prompts = <<>>
        /\ session.warned # {} => session.options.yes
        /\ \A i \in ResolvedIdx :
              LET envVar == session.envVars[i] IN
              DeclaredDefault(envVar) = None =>
                  IF Len(envVar.choices) > 0
                  THEN envVar.name \in DOMAIN session.env
                       /\ session.env[envVar.name] = envVar.choices[1]
                  ELSE envVar.name \notin DOMAIN session.env

\* C21 (amended): in quick mode or without a terminal no prompt is invoked
\* and the process environment value is not used: a variable without declared
\* default resolves to its first declared choice if it has choices and that
\* first choice is not the empty string, and is left absent otherwise, even
\* when required; a warning is logged in quick mode only.
C21_Unattended ==
    (session.phase # "idle" /\ Unattended) =>
        /\ session.prompts = <<>>
        /\ session.warned # {} => session.options.yes
        /\ \A i \in ResolvedIdx :
              LET envVar == session.envVars[i] IN
              DeclaredDefault(envVar) = None =>
                  IF Len(envVar.choices) > 0 /\ envVar.choices[1] # ""
                  THEN envVar.name \in DOMAIN session.env
                       /\ session.env[envVar.name] = envVar.choices[1]
                  ELSE envVar.name \notin DOMAIN session.env

\* C21 witness: in quick mode on a terminal, with same-named process
\* environment variables, a variable with choices was resolved to the first
\* one and a required variable without choices was left absent with a warning.
C21_Witness ==
    /\ session.phase = "returned"
    /\ session.options.yes
    /\ tty
    /\ Len(session.envVars) = 2
    /\ session.processEnv["A"] = Some("secret-value")
    /\ session.processEnv["B"] = Some("x")
    /\ session.envVars[1].default = None
    /\ session.envVars[1].value = None
    /\ session.envVars[1].choices = <<"x", "y">>
    /\ session.env = [n \in {"A"} |-> "x"]
    /\ session.warned = {"B"}

\* How the specification says an environment value is displayed
Displayed(value, isSecret) ==
    IF ~ isSecret THEN value
    ELSE IF Len(value) > 6 THEN SubSeq(value, 1, 4) \o "XXX"
    ELSE "XXX"

\* The resolved variables whose process environment value was offered: no
\* usable default, a non-empty environment value, not quick, on a terminal
OfferedIdx ==
    { i \in ResolvedIdx :
        LET envVar == session.envVars[i] IN
        /\ ~ Truthy(DeclaredDefault(envVar))
        /\ Truthy(session.processEnv[envVar.name])
        /\ ~ Unattended }

\* The first prompt invoked for a variable
FirstPromptFor(name) ==
    session.prompts[CHOOSE k \in 1..Len(session.prompts) :
                        /\ session.prompts[k].name = name
                        /\ \A j \in 1..(k - 1) : session.prompts[j].name # name]

\* C22: when the process environment value of a variable is offered, the
\* select shows as its first choice the value followed by " (environment)"
\* (after "Use " when the variable has no choices), the value being shown as
\* its first 4 characters and "XXX" when the variable is secret and the value
\* longer than 6 characters, as "XXX" when secret and at most 6 characters
\* long, and unchanged when the variable is not secret.
C22_Redaction ==
    session.phase # "idle" =>
        \A i \in OfferedIdx :
            LET envVar == session.envVars[i]
                shown == Displayed(session.processEnv[envVar.name][1], envVar.isSecret)
            IN  /\ PromptedFor(envVar.name)
                /\ FirstPromptFor(envVar.name).fn = "select"
                /\ FirstPromptFor(envVar.name).choices[1] =
                       (IF Len(envVar.choices) > 0 THEN "" ELSE "Use ") \o shown \o " (environment)"

\* C22 witness: the 6-character value of a secret variable was offered as
\* "XXX", the variable having no choices.
C22_Witness ==
    /\ session.phase = "returned"
    /\ 1 \in OfferedIdx
    /\ session.envVars[1].isSecret
    /\ session.envVars[1].choices = <<>>
    /\ session.processEnv["A"] = Some("secret")
    /\ FirstPromptFor("A").choices[1] = "Use XXX (environment)"

\* The package buildServerConfig took the variables it hands on from
ConsultedPackage == getPackageForTransport(metadata, TransportType(params.transport))

\* C23 (as stated): every variable buildServerConfig hands to the resolver is
\* named in combination.envKeys, satisfies its dependsOn under
\* combination.dimensionValues and is not pre-populated by a filtered default
\* or an env dimension value.  Violated when a non-empty optionalVarsToPrompt
\* is supplied: the selected optional variables are taken from all the
\* variables of the package (generate.ts:1032-1038), named in envKeys or not.
C23_AsStated ==
    Returned =>
        \A i \in 1..Len(result[1].handed) :
            LET name == result[1].handed[i]
                envVar == DeclaredIn(ConsultedPackage, name)
            IN  /\ name \in Range(params.combination.envKeys)
                /\ envVar # None
                /\ DependsOnHolds(envVar[1].dependsOn, params.combination.dimensionValues)
                /\ name \notin DOMAIN result[1].filteredDefaults
                /\ name \notin DOMAIN result[1].envDimensions

\* The variables of the consulted package that are relevant to the
\* combination and not pre-populated, in declaration order
RelevantNotPopulated ==
    LET declared == ConsultedPackage[1].environmentVariables
        Open(envVar) ==
            /\ envVar.name \in Range(params.combination.envKeys)
            /\ DependsOnHolds(envVar.dependsOn, params.combination.dimensionValues)
            /\ envVar.name \notin DOMAIN result[1].filteredDefaults
            /\ envVar.name \notin DOMAIN result[1].envDimensions
        NameOf(envVar) == envVar.name
    IN  Map(SelectSeq(declared, Open), NameOf)

\* C24: with a filter optionalVarsToPrompt, every variable handed to the
\* resolver is required or named in the filter, so with an empty filter only
\* required variables are handed on; without a filter the variables handed on
\* are all the relevant variables that are not pre-populated.  (The loops of
\* generateCommand pass one and the same filter with every pair: PairParams.)
C24_Filter ==
    Returned =>
        IF params.optionalVarsToPrompt # None
        THEN \A i \in 1..Len(result[1].handed) :
                LET name == result[1].handed[i] IN
                \/ DeclaredIn(ConsultedPackage, name)[1].isRequired
                \/ name \in params.optionalVarsToPrompt[1]
        ELSE result[1].handed = RelevantNotPopulated

\* C24 witness: with the filter {B}, the optional variable B was handed to
\* the resolver and the optional variable A, relevant and not pre-populated,
\* was not.
C24_Witness ==
    /\ Returned
    /\ params.optionalVarsToPrompt = Some({"B"})
    /\ "B" \in Range(result[1].handed)
    /\ "A" \notin Range(result[1].handed)
    /\ "A" \in Range(RelevantNotPopulated)
    /\ ~ DeclaredIn(ConsultedPackage, "A")[1].isRequired
    /\ ~ DeclaredIn(ConsultedPackage, "B")[1].isRequired

\* The pairs are listed combination by combination, the transports of one
\* combination in the order of their first appearance in the list
ListOrder(pairs) ==
    /\ \A i, j, k \in 1..Len(pairs) :
          (i < j /\ j < k /\ pairs[i].combination = pairs[k].combination)
              => pairs[j].combination = pairs[i].combination
    /\ \A i, j, k, l \in 1..Len(pairs) :
          (/\ i < j /\ k < l
           /\ pairs[i].combination = pairs[j].combination
           /\ pairs[k].combination = pairs[l].combination
           /\ pairs[i].transport = pairs[l].transport)
              => pairs[j].transport # pairs[k].transport

\* C25: the pairs of a run are listed combinations outer, transports inner,
\* and are processed strictly one after another in that order: a call starts
\* only when every earlier call has completed, so at most one call is in
\* flight and at most one prompt is outstanding at any time.
C25_OneAtATime ==
    calls.phase # "idle" =>
        /\ ListOrder(calls.pairs)
        /\ Cardinality(calls.inFlight) <= 1
        /\ Cardinality(calls.asking) <= 1
        /\ calls.started = [k \in 1..Len(calls.started) |-> k]
        /\ calls.completed = [k \in 1..Len(calls.completed) |-> k]
        /\ Len(calls.started) - Len(calls.completed) = Cardinality(calls.inFlight)

\* C25 witness: the second of at least three pairs has a prompt outstanding,
\* the first pair is complete and the third has not started.
C25_Witness ==
    /\ calls.phase = "loop"
    /\ Len(calls.pairs) >= 3
    /\ calls.asking = {2}
    /\ calls.completed = <<1>>
    /\ calls.toAsk[3] > 0
    /\ calls.pos = 3

\* The env buildServerConfig emits for the i-th pair of the run, when it
\* returns a configuration
EnvOfPair(i) ==
    LET built == buildServerConfig(PairParams(run.common, run.pairs[i]), metadata) IN
    IF built.threw THEN <<>> ELSE EmittedEnv(built.config)

\* Every emitted key whose variable declares dependsOn satisfies it under the
\* dimension values of the pair's combination
EnvRespectsDependsOn(i) ==
    LET pair == run.pairs[i]
        pkg == getPackageForTransport(metadata,
                   IF IsHttp(pair.transport) THEN "streamable-http" ELSE "stdio")
    IN  \A name \in DOMAIN EnvOfPair(i) :
            LET envVar == DeclaredIn(pkg, name) IN
            envVar # None =>
                DependsOnHolds(envVar[1].dependsOn, pair.combination.dimensionValues)

\* C26 (as stated): for every combination of a run and every transport, each
\* key of the emitted env whose variable declares dependsOn satisfies it under
\* the combination's dimensionValues.  Violated in the interactive flow: the
\* cartesian product of generate.ts:607 pairs every ticked choice of a
\* conditional variable with every ticked choice of the variable it depends
\* on, and buildServerConfig copies the env dimension values into env
\* unchecked (generate.ts:985-995, 1055).
C26_AsStated ==
    run.phase \in { "loop", "done" } => \A i \in 1..(run.pos - 1) : EnvRespectsDependsOn(i)

-----------------------------------------------------------------------------
(* Names of conditional combinations.  server.json is written by the       *)
(* package author, so a declared choice is an arbitrary string: the pool   *)
(* below adds a choice that contains the two separators of the name.       *)

SeparatorChoicePool == { <<"x">>, <<"x", "y">>, <<"x", "x_b-y">> }

SeparatorDepPool == { None, Some([A |-> {"x"}]), Some([A |-> {"y"}]) }

InitNames ==
    /\ \E n \in 0..MaxVars : \E cd \in [1..n -> SeparatorChoicePool \X SeparatorDepPool] :
          envVars = EnvVarInput(n, cd)
    /\ genMode = "none"
    /\ combinations = <<>>
    /\ product = None
    /\ depVar = NoCall
    /\ selected = <<>>
    /\ verdict = None
    /\ metadata = NoMetadata
    /\ params = NoParams
    /\ result = None
    /\ FilesIdle
    /\ ChoicesIdle
    /\ RunIdle
    /\ ValidatorIdle
    /\ PromptIdle
    /\ CallsIdle
    /\ SchemaIdle

SpecNames == InitNames /\ [][NextComb]_vars

DistinctNames ==
    \A i, j \in 1..Len(combinations) :
        combinations[i].dimensionValues # combinations[j].dimensionValues
            => combinations[i].name # combinations[j].name

(* C27: any two distinct combinations returned by                          *)
(* generateConditionalCombinations have different names.  Violated: with   *)
(* A = ['x', 'x_b-y'] and B = ['x', 'y'] depending on A = 'x', the         *)
(* combinations {A: 'x', B: 'y'} and {A: 'x_b-y'} are both 'a-x_b-y'.      *)
C27_AsStated ==
    genMode = "conditional" => DistinctNames

-----------------------------------------------------------------------------
\* The output file of the i-th pair of the run
PathOfPair(i) == TargetPath(PairParams(run.common, run.pairs[i]))

(* C28: in the interactive flow any two distinct selected (combination,    *)
(* transport) pairs have different output files.  Violated: a dimension    *)
(* ticked as ['x', 'skip'] has one real choice and so adds nothing to the  *)
(* name; the combinations {A: 'x'} and {} are both named 'defaults'.       *)
C28_AsStated ==
    run.mode = "interactive" /\ run.phase \in { "loop", "done" }
        => \A i, j \in 1..(run.pos - 1) :
              run.pairs[i] # run.pairs[j] => PathOfPair(i) # PathOfPair(j)

-----------------------------------------------------------------------------
\* The i-th variable depends on a conditional dimension that is no primary one
DependsOnConditional(i) ==
    /\ envVars[i].dependsOn # None
    /\ \E n \in DOMAIN envVars[i].dependsOn[1] :
          /\ \E j \in 1..Len(envVars) : j # i /\ envVars[j].name = n /\ envVars[j].dependsOn # None
          /\ ~ \E j \in 1..Len(envVars) : envVars[j].name = n /\ envVars[j].dependsOn = None

\* The combination c carries the variable of that name
Carries(c, name) ==
    \/ name \in DOMAIN c.dimensionValues
    \/ \E k \in 1..Len(c.envKeys) : c.envKeys[k] = name

(* C29: generateConditionalCombinations evaluates applicability against    *)
(* the primary values only, so a conditional dimension whose dependsOn     *)
(* names another conditional dimension is in the dimensionValues and the   *)
(* envKeys of no emitted combination.                                      *)
C29_NeverIncluded ==
    genMode = "conditional"
        => \A i \in 1..Len(envVars) : DependsOnConditional(i)
              => \A k \in 1..Len(combinations) : ~ Carries(combinations[k], envVars[i].name)

\* Reached: a combination gives the conditional dimension B a value the
\* dependent dimension allows, and the dependent dimension is left out.
C29_Witness ==
    /\ genMode = "conditional"
    /\ \E i \in 1..Len(envVars) :
          /\ DependsOnConditional(i)
          /\ \E k \in 1..Len(combinations) :
                /\ \A n \in DOMAIN envVars[i].dependsOn[1] :
                      /\ n \in DOMAIN combinations[k].dimensionValues
                      /\ combinations[k].dimensionValues[n] # ""
                      /\ combinations[k].dimensionValues[n] \in envVars[i].dependsOn[1][n]
                /\ ~ Carries(combinations[k], envVars[i].name)

-----------------------------------------------------------------------------
(* getSchema (src/lib/json-schema.ts:17-52)                                *)
(*                                                                         *)
(* schemaCache is module state shared by every call of the process.  A     *)
(* call runs to its first await without interruption; `await fetch(...)`   *)
(* and `await response.json()` each end a step, so other calls may run     *)
(* between them.  The fallback to the bundled file is synchronous.  Each   *)
(* fetch settles on its own: the network may serve one call and fail the   *)
(* next.                                                                   *)

Callers == 1..MaxCallers

NetworkSchema == "schema from SCHEMA_URL"

BundledSchema == "schemas/server.schema.json"

InitSchema ==
    /\ \E bundled \in BOOLEAN :
          loader = [phase |-> "running", schemaCache |-> None, bundled |-> bundled,
                    pc |-> [c \in Callers |-> "idle"],
                    returned |-> [c \in Callers |-> None],
                    fetches |-> 0, reads |-> 0]
    /\ GeneratorsIdle
    /\ metadata = NoMetadata
    /\ params = NoParams
    /\ result = None
    /\ FilesIdle
    /\ ChoicesIdle
    /\ RunIdle
    /\ ValidatorIdle
    /\ PromptIdle
    /\ CallsIdle

SchemaUnchanged ==
    UNCHANGED <<envVars, genMode, combinations, product, depVar, selected, verdict,
                metadata, params, result, fileSystem, tty, outcome, choiceInput,
                configChoices, filtered, run, configFile, installedServers, report, session,
                calls>>

\* json-schema.ts:44-51: the bundled schema, or the throw
Fallback(state, c) ==
    IF state.bundled
    THEN [state EXCEPT !.schemaCache = Some(BundledSchema),
                       !.reads = @ + 1,
                       !.pc[c] = "returned",
                       !.returned[c] = Some(BundledSchema)]
    ELSE [state EXCEPT !.pc[c] = "threw"]

\* json-schema.ts:28-35: the cached schema, or the fetch is started
CallGetSchema ==
    /\ loader.phase = "running"
    /\ \E c \in Callers :
          /\ loader.pc[c] = "idle"
          /\ loader' = IF loader.schemaCache # None
                       THEN [loader EXCEPT !.pc[c] = "returned", !.returned[c] = loader.schemaCache]
                       ELSE [loader EXCEPT !.pc[c] = "fetching", !.fetches = @ + 1]
    /\ SchemaUnchanged

\* json-schema.ts:35-36, 39: the response arrives; response.ok or not
FetchResolves ==
    /\ loader.phase = "running"
    /\ \E c \in Callers : \E ok \in BOOLEAN :
          /\ loader.pc[c] = "fetching"
          /\ loader' = IF ok THEN [loader EXCEPT !.pc[c] = "reading body"] ELSE Fallback(loader, c)
    /\ SchemaUnchanged

\* json-schema.ts:35, 40-42: fetch rejects, the catch falls through
FetchRejects ==
    /\ loader.phase = "running"
    /\ \E c \in Callers :
          /\ loader.pc[c] = "fetching"
          /\ loader' = Fallback(loader, c)
    /\ SchemaUnchanged

\* json-schema.ts:37-38: the body is parsed and cached
BodyParsed ==
    /\ loader.phase = "running"
    /\ \E c \in Callers :
          /\ loader.pc[c] = "reading body"
          /\ loader' = [loader EXCEPT !.schemaCache = Some(NetworkSchema),
                                      !.pc[c] = "returned",
                                      !.returned[c] = Some(NetworkSchema)]
    /\ SchemaUnchanged

\* json-schema.ts:37, 40-42: response.json() rejects inside the try
BodyRejects ==
    /\ loader.phase = "running"
    /\ \E c \in Callers :
          /\ loader.pc[c] = "reading body"
          /\ loader' = Fallback(loader, c)
    /\ SchemaUnchanged

NextSchema == CallGetSchema \/ FetchResolves \/ FetchRejects \/ BodyParsed \/ BodyRejects

SpecSchema == InitSchema /\ [][NextSchema]_vars

(* C30: under any interleaving of getSchema calls of one process the       *)
(* network fetch is attempted at most once, a call started with the cache  *)
(* populated returns the cached schema without fetching or reading the     *)
(* file, and a call that throws leaves the cache empty.  Violated: a call  *)
(* that starts while the first one awaits its fetch finds schemaCache      *)
(* still null and fetches as well.                                         *)
C30_AsStated ==
    loader.phase = "running"
        => /\ loader.fetches <= 1
           /\ \A c \in Callers : loader.pc[c] = "threw" => loader.schemaCache = None

=============================================================================
